---- MODULE Spec2Model ----
(***************************************************************************)
(* Reconciliation Job Engine of tagventory-IA                              *)
(* (src/src/services/reconciliation-job.service.js and the controller      *)
(* src/src/controllers/reconciliation.controller.js).                      *)
(*                                                                         *)
(* The two MongoDB collections are the variables `jobs` and `assets`.      *)
(* Every await of the service is one atomic step on them; an invocation    *)
(* of processJob, of the decision endpoint and of autoReconcileJob is a    *)
(* small process whose position and local variables are kept in `runs`,    *)
(* `dec` and `ar`.                                                         *)
(***************************************************************************)
EXTENDS Integers, Sequences, FiniteSets, TLC

\* ------------------------------------------------------------------ bounds
NJobs == 1          \* job ids that createJob may hand out
NRows == 2          \* rows of a job
NAssets == 2        \* catalog entries
NRuns == 1          \* processJob invocations that pass the initial checks
MaxScore == 2       \* similarity levels 1..MaxScore reported by the search
MaxDecisions == 1   \* decision requests that reach saveDecision
NEntries == 3       \* catalog entries the backfill scans
BatchSize == 2      \* --batch of scripts/backfill-all.js
NBulk == 2          \* runs of scripts/backfill-all.js, possibly overlapping
MaxErrors == 2      \* cap of the error counter of a bulk run
MaxPathLen == 3     \* characters of a location filter and of a location path
NOverlap == 2       \* processJob invocations in flight at once in SpecReprocess
NAutoRows == 3      \* rows of the processed job autoReconcileJob is run on in SpecAutoRows

\* --------------------------------------------------------- program constants
SearchLimit == 10   \* { $limit: 10 } after the $match stage
MaxRetries == 5     \* getEmbeddingsBatch(texts, { maxRetries = 5 })

JobIds == 1..NJobs
Assets == 1..NAssets
RunIds == 1..NRuns
Scores == 1..MaxScore
RowNumbers == 1..NRows

\* ObjectId null / absent
Null == 0

\* Characters of a description: a blank and a letter.
Blank == " "
Letter == "a"
\* The descriptions a caller sends: blank only, and a word with a leading blank.
Descs == { <<Blank>>, <<Blank, Letter>> }

\* ------------------------------------------------------------------ helpers
Min(a, b) == IF a < b THEN a ELSE b

Take(s, n) == SubSeq(s, 1, Min(n, Len(s)))


\* text.replace(/\s+/g, ' '): every run of blanks becomes one blank.
RECURSIVE CollapseBlanks(_)
CollapseBlanks(t) ==
    IF Len(t) <= 1 THEN t
    ELSE IF t[1] = Blank /\ t[2] = Blank THEN CollapseBlanks(Tail(t))
    ELSE <<t[1]>> \o CollapseBlanks(Tail(t))

\* String.prototype.trim
RECURSIVE Trim(_)
Trim(t) ==
    IF t = <<>> THEN t
    ELSE IF Head(t) = Blank THEN Trim(Tail(t))
    ELSE IF t[Len(t)] = Blank THEN Trim(SubSeq(t, 1, Len(t) - 1))
    ELSE t

normalizeText(text) == Trim(CollapseBlanks(text))

\* The hexadecimal string of an ObjectId (toString) and its parse (new ObjectId):
\* a string is a tuple of its "digits"; the empty tuple is the empty string.
IdToString(oid) == <<oid>>
ObjectId(str) == str[1]
\* new ObjectId(str) throws on a string that is no 24-digit hexadecimal number
BadHex == <<Null>>
ValidHex(str) == Len(str) = 1 /\ str[1] \in Nat /\ str[1] # Null

\* ------------------------------------------------------------------- state
VARIABLES
    jobs,       \* collection reconciliation_jobs: job id -> document
    nextJobId,  \* the id insertOne hands out next
    assets,     \* collection assets: asset id -> reconciliation fields
    runs,       \* processJob invocations
    dec,        \* the decision request in flight (POST .../decision)
    ar,         \* the autoReconcileJob invocation in flight
    issued,     \* decision requests that reached saveDecision so far
    resp,       \* outcome of the operation that ended in the last step
    ext,        \* external call made by the last step: none | embed | search
    entries,    \* collection assets, the fields the backfill reads and writes
    bulk,       \* runs of scripts/backfill-all.js
    sample,     \* the backfillSampleAssets invocation in flight
    loc         \* an evaluation of buildLocationMatch on a location path

engineVars == <<jobs, nextJobId, assets, runs, dec, ar, issued, resp, ext>>
pipelineVars == <<entries, bulk, sample, loc>>
vars == <<engineVars, pipelineVars>>

NoResp == [op |-> "none", result |-> "none"]

IdleRun == [pc |-> "idle", job |-> 0, descs |-> <<>>, i |-> 0,
            processedRows |-> 0, held |-> <<>>]

IdleDec == [pc |-> "idle", job |-> 0, rowNumber |-> 0, selectedAssetId |-> <<>>]

IdleAr == [pc |-> "idle", job |-> 0, minScore |-> 0, assignedIds |-> {},
           queue |-> <<>>, k |-> 0, autoMatched |-> 0, totalRows |-> 0,
           candidate |-> <<>>]

FreshAsset == [isReconciled |-> FALSE, reconciledJobId |-> Null,
               reconciledRowNumber |-> Null]

\* An asset document as the backfill sees it: its name (brand and model are
\* absent), which of the embedding fields exist on it, and the values of
\* embeddingText (`text`) and textEmbedding (`vector`), <<>> when absent.
FreshEntry(name) == [name |-> name, fields |-> {}, text |-> <<>>, vector |-> <<>>]

EntryIds == 1..NEntries
BulkIds == 1..NBulk

IdleBulk == [pc |-> "idle", result |-> "none", totalPending |-> 0,
             batch |-> <<>>, toSkip |-> <<>>, toEmbed |-> <<>>, ops |-> <<>>,
             embeddings |-> <<>>, attempt |-> 0, calls |-> 0,
             processed |-> 0, errors |-> 0, skipped |-> 0]

IdleSample == [pc |-> "idle", queue |-> <<>>, k |-> 0]

IdleLoc == [pc |-> "idle", filter |-> [type |-> "null", chars |-> <<>>],
            path |-> <<>>, filtered |-> FALSE, accepted |-> FALSE]

\* The job engine before any request
InitEngine ==
    /\ jobs = <<>>
    /\ nextJobId = 1
    /\ assets = [a \in Assets |-> FreshAsset]
    /\ runs = [r \in RunIds |-> IdleRun]
    /\ dec = IdleDec
    /\ ar = IdleAr
    /\ issued = 0
    /\ resp = NoResp
    /\ ext = "none"

\* No backfill in flight, on a catalog of entries that have a name
PipelineIdle ==
    /\ entries = [e \in EntryIds |-> FreshEntry(<<Letter>>)]
    /\ bulk = [r \in BulkIds |-> IdleBulk]
    /\ sample = IdleSample
    /\ loc = IdleLoc

Init == InitEngine /\ PipelineIdle

JobExists(j) == j \in DOMAIN jobs

\* updateOne with { upsert: true }: a filter that matches no job inserts one
updateOneUpsert(j, doc) ==
    IF JobExists(j) THEN [jobs EXCEPT ![j] = doc]
    ELSE [k \in DOMAIN jobs \cup {j} |->
            IF k = j
            THEN [status |-> "processing", totalRows |-> 0, processedRows |-> 0,
                  rows |-> <<>>]
            ELSE jobs[k]]

\* collection.updateOne({ _id: objectId }, { $set }): the job becomes `doc`; a
\* filter that matches no job changes nothing.
updateOne(j, doc) == IF JobExists(j) THEN [jobs EXCEPT ![j] = doc] ELSE jobs


\* ---------------------------------------------------------------- createJob
\* rows.map(...) of createJob
JobRow(r) ==
    [rowNumber |-> r.rowNumber,
     sapDescription |-> r.sapDescription,
     sapLocation |-> r.sapLocation,
     suggestions |-> <<>>,
     decision |-> "pending",
     selectedAssetId |-> Null]

\* processedRows initialised with the number of rows
NewJobDocCounted(rows) ==
    [status |-> "pending",
     totalRows |-> Len(rows),
     processedRows |-> Len(rows),
     rows |-> [k \in DOMAIN rows |-> JobRow(rows[k])]]

NewJobDoc(rows) ==
    [status |-> "pending",
     totalRows |-> Len(rows),
     processedRows |-> 0,
     rows |-> [k \in DOMAIN rows |-> JobRow(rows[k])]]

\* The location a caller sends with a row
Locations == { <<Letter>> }

\* The row lists of a request: 1..NRows rows. createJob takes the row numbers
\* as they come, in any order, repeated or not.
InputRows ==
    UNION { [1..n -> [rowNumber : RowNumbers, sapDescription : Descs,
                      sapLocation : Locations]] : n \in 1..NRows }

CreateJob(rows) ==
    /\ nextJobId <= NJobs
    /\ jobs' = [j \in DOMAIN jobs \cup {nextJobId} |->
                  IF j = nextJobId THEN NewJobDoc(rows) ELSE jobs[j]]
    /\ nextJobId' = nextJobId + 1
    /\ resp' = [op |-> "createJob", result |-> "ok"]
    /\ ext' = "none"
    /\ UNCHANGED <<assets, runs, dec, ar, issued, pipelineVars>>

\* --------------------------------------------------------------- processJob
\* The loop head without the test of the normalized description
NextRowNoSkip(descs, i) == i

\* The loop head: the next index >= i whose normalized description is not empty
\* (`if (!normalizedDesc) continue`), Len + 1 when the loop ends.
RECURSIVE NextRow(_, _)
NextRow(descs, i) ==
    IF i > Len(descs) THEN i
    ELSE IF normalizeText(descs[i]) = <<>> THEN NextRow(descs, i + 1)
    ELSE i

\* The loop going back one row before it looks for the next row
AdvanceAgain(run, i) ==
    LET n == NextRow(run.descs, IF i > 1 THEN i - 1 ELSE i) IN
    [run EXCEPT !.i = n,
                !.pc = IF n > Len(run.descs) THEN "complete" ELSE "embed",
                !.held = <<>>]

\* The run `r` moves on to row index i (skipping rows without text).
Advance(run, i) ==
    LET n == NextRow(run.descs, i) IN
    [run EXCEPT !.i = n,
                !.pc = IF n > Len(run.descs) THEN "complete" ELSE "embed",
                !.held = <<>>]

\* findOne finds no job: 'Job no encontrado'
ProcessJobNotFound(j) ==
    /\ ~JobExists(j)
    /\ resp' = [op |-> "processJob", result |-> "notfound"]
    /\ ext' = "none"
    /\ UNCHANGED <<jobs, nextJobId, assets, runs, dec, ar, issued, pipelineVars>>

\* The status check placed after the write of status: 'processing'
ProcessJobRejectedLate(j) ==
    /\ JobExists(j)
    /\ jobs[j].status = "completed"
    /\ jobs' = [jobs EXCEPT ![j].status = "processing"]
    /\ resp' = [op |-> "processJob", result |-> "error"]
    /\ ext' = "none"
    /\ UNCHANGED <<nextJobId, assets, runs, dec, ar, issued, pipelineVars>>

\* job.status === 'completed': 'Job ya fue procesado'
ProcessJobRejected(j) ==
    /\ JobExists(j)
    /\ jobs[j].status = "completed"
    /\ resp' = [op |-> "processJob", result |-> "error"]
    /\ ext' = "none"
    /\ UNCHANGED <<jobs, nextJobId, assets, runs, dec, ar, issued, pipelineVars>>

\* findOne passes the checks: the run holds the document it read.
ProcessJobStart(r, j) ==
    /\ runs[r].pc = "idle"
    /\ JobExists(j)
    /\ jobs[j].status # "completed"
    /\ runs' = [runs EXCEPT ![r] =
                  [IdleRun EXCEPT !.pc = "setProcessing", !.job = j,
                     !.descs = [k \in DOMAIN jobs[j].rows |->
                                  jobs[j].rows[k].sapDescription]]]
    /\ resp' = NoResp
    /\ ext' = "none"
    /\ UNCHANGED <<jobs, nextJobId, assets, dec, ar, issued, pipelineVars>>

\* updateOne $set status: 'processing'; then the loop starts.
SetProcessing(r) ==
    /\ runs[r].pc = "setProcessing"
    /\ jobs' = updateOne(runs[r].job,
                          [jobs[runs[r].job] EXCEPT !.status = "processing"])
    /\ runs' = [runs EXCEPT ![r] = Advance(runs[r], 1)]
    /\ resp' = NoResp
    /\ ext' = "none"
    /\ UNCHANGED <<nextJobId, assets, dec, ar, issued, pipelineVars>>

\* getTextEmbedding returns a vector.
EmbedOk(r) ==
    /\ runs[r].pc = "embed"
    /\ runs' = [runs EXCEPT ![r].pc = "search"]
    /\ resp' = NoResp
    /\ ext' = "embed"
    /\ UNCHANGED <<jobs, nextJobId, assets, dec, ar, issued, pipelineVars>>

\* getTextEmbedding throws and nothing catches it: the invocation ends.
EmbedFailAborts(r) ==
    /\ runs[r].pc = "embed"
    /\ runs' = [runs EXCEPT ![r] = [IdleRun EXCEPT !.pc = "done", !.job = runs[r].job]]
    /\ resp' = [op |-> "processJob", result |-> "error"]
    /\ ext' = "embed"
    /\ UNCHANGED <<jobs, nextJobId, assets, dec, ar, issued, pipelineVars>>

\* getTextEmbedding throws: caught, the loop goes to the next row.
EmbedFail(r) ==
    /\ runs[r].pc = "embed"
    /\ runs' = [runs EXCEPT ![r] = Advance(runs[r], runs[r].i + 1)]
    /\ resp' = NoResp
    /\ ext' = "embed"
    /\ UNCHANGED <<jobs, nextJobId, assets, dec, ar, issued, pipelineVars>>

\* What $vectorSearch may return: at most n entries of E, no entry twice, each
\* with its score, best first. Which entries and which scores is the search
\* engine's (and, with a locationFilter, the location $match's) choice.
RankedLists(E, n) ==
    UNION { { s \in [1..m -> E \X Scores] :
                /\ \A p, q \in 1..m : p # q => s[p][1] # s[q][1]
                /\ \A p \in 1..m : p < m => s[p][2] >= s[p + 1][2] }
            : m \in 0..Min(n, Cardinality(E)) }

\* baseMatch = { isReconciled: { $ne: true } }
BaseMatch(a) == assets[a].isReconciled # TRUE

\* $project: the documents the aggregate returns
Project(hit) ==
    [_id |-> hit[1], isReconciled |-> assets[hit[1]].isReconciled, score |-> hit[2]]

\* The $match stage without baseMatch
MatchStageAll(hit) == TRUE

MatchStage(hit) == BaseMatch(hit[1])

\* aggregate(pipeline).toArray() for one ranking `raw` of the vector search
Aggregate(raw) ==
    LET matched == SelectSeq(raw, MatchStage)
        limited == Take(matched, SearchLimit)
    IN [k \in DOMAIN limited |-> Project(limited[k])]

\* Everything the aggregate may return on the catalog as it is now
SearchResults == { Aggregate(raw) : raw \in RankedLists(Assets, NAssets) }

\* suggestions.map(...): the snapshot stored on the row
FormatSuggestion(s) ==
    [assetId |-> s._id, isReconciled |-> (s.isReconciled = TRUE), score |-> s.score]

SearchOk(r) ==
    /\ runs[r].pc = "search"
    /\ \E found \in SearchResults :
          runs' = [runs EXCEPT ![r].pc = "store", ![r].held = found]
    /\ resp' = NoResp
    /\ ext' = "search"
    /\ UNCHANGED <<jobs, nextJobId, assets, dec, ar, issued, pipelineVars>>

\* The aggregate throws and nothing catches it: the invocation ends.
SearchFailAborts(r) ==
    /\ runs[r].pc = "search"
    /\ runs' = [runs EXCEPT ![r] = [IdleRun EXCEPT !.pc = "done", !.job = runs[r].job]]
    /\ resp' = [op |-> "processJob", result |-> "error"]
    /\ ext' = "search"
    /\ UNCHANGED <<jobs, nextJobId, assets, dec, ar, issued, pipelineVars>>

\* The aggregate throws: caught, the loop goes to the next row.
SearchFail(r) ==
    /\ runs[r].pc = "search"
    /\ runs' = [runs EXCEPT ![r] = Advance(runs[r], runs[r].i + 1)]
    /\ resp' = NoResp
    /\ ext' = "search"
    /\ UNCHANGED <<jobs, nextJobId, assets, dec, ar, issued, pipelineVars>>

\* processedRows taken from the loop index instead of the counter
StoreUpdateByIndex(doc, i, held, processedRows) ==
    [doc EXCEPT !.rows[i].suggestions = [k \in DOMAIN held |-> FormatSuggestion(held[k])],
                !.processedRows = i]

\* The row write that stores the row as a row without decision
StoreUpdateResettingDecision(doc, i, held, processedRows) ==
    [doc EXCEPT !.rows[i].suggestions = [k \in DOMAIN held |-> FormatSuggestion(held[k])],
                !.rows[i].decision = "pending",
                !.rows[i].selectedAssetId = Null,
                !.processedRows = processedRows + 1]

\* $set of the row write
StoreUpdate(doc, i, held, processedRows) ==
    [doc EXCEPT !.rows[i].suggestions = [k \in DOMAIN held |-> FormatSuggestion(held[k])],
                !.processedRows = processedRows + 1]

\* updateOne rows.i.suggestions, processedRows: processedRows + 1; processedRows++
StoreRow(r) ==
    /\ runs[r].pc = "store"
    /\ jobs' = updateOne(runs[r].job,
                          StoreUpdate(jobs[runs[r].job], runs[r].i, runs[r].held,
                                      runs[r].processedRows))
    /\ runs' = [runs EXCEPT ![r] =
                  Advance([runs[r] EXCEPT !.processedRows = @ + 1], runs[r].i + 1)]
    /\ resp' = NoResp
    /\ ext' = "none"
    /\ UNCHANGED <<nextJobId, assets, dec, ar, issued, pipelineVars>>

\* $set of the last write
CompleteUpdate(doc, processedRows) ==
    [doc EXCEPT !.status = "completed", !.processedRows = processedRows]

\* updateOne status: 'completed', processedRows; return
Complete(r) ==
    /\ runs[r].pc = "complete"
    /\ jobs' = updateOne(runs[r].job,
                          CompleteUpdate(jobs[runs[r].job], runs[r].processedRows))
    /\ runs' = [runs EXCEPT ![r] = [IdleRun EXCEPT !.pc = "done", !.job = runs[r].job]]
    /\ resp' = [op |-> "processJob", result |-> "completed"]
    /\ ext' = "none"
    /\ UNCHANGED <<nextJobId, assets, dec, ar, issued, pipelineVars>>

\* ------------------------------------------------------------- saveDecision
\* Index of the row the positional operator rows.$ addresses: the first row whose
\* rowNumber is the one asked for; 0 when the filter matches no row.
RowIndex(rows, rowNumber) ==
    IF \E k \in DOMAIN rows : rows[k].rowNumber = rowNumber
    THEN CHOOSE k \in DOMAIN rows :
            /\ rows[k].rowNumber = rowNumber
            /\ \A m \in DOMAIN rows : rows[m].rowNumber = rowNumber => k <= m
    ELSE 0

\* The filter { _id, 'rows.rowNumber': rowNumber } of saveDecision's updateOne
DecisionMatches(j, rowNumber) ==
    JobExists(j) /\ RowIndex(jobs[j].rows, rowNumber) # 0

\* $set of saveDecision: decision and selectedAssetId, and no suggestions left
\* on a no_match.
DecisionUpdate(doc, rowNumber, decision, selectedAssetId) ==
    LET k == RowIndex(doc.rows, rowNumber)
        oid == IF selectedAssetId # <<>> THEN ObjectId(selectedAssetId) ELSE Null
    IN [doc EXCEPT !.rows[k].decision = decision,
                   !.rows[k].selectedAssetId = oid,
                   !.rows[k].suggestions =
                       IF decision = "no_match" THEN <<>> ELSE @]

\* The back-reference written with the job id in both fields
ReconciledAssetJobTwice(j, rowNumber) ==
    [isReconciled |-> TRUE, reconciledJobId |-> j, reconciledRowNumber |-> j]

\* $set on the asset: the reconciled flag and the back-reference
ReconciledAsset(j, rowNumber) ==
    [isReconciled |-> TRUE, reconciledJobId |-> j, reconciledRowNumber |-> rowNumber]

\* The asset write with the number of the row after the one decided
MarkReconciledNextRow(j, rowNumber, selectedAssetId) ==
    LET a == ObjectId(selectedAssetId) IN
    IF a \in DOMAIN assets
    THEN [assets EXCEPT ![a] = ReconciledAsset(j, rowNumber + 1)]
    ELSE assets

\* The asset write that also releases the entry the row had selected before
MarkReconciledReleasing(j, rowNumber, selectedAssetId) ==
    LET a == ObjectId(selectedAssetId) IN
    [b \in DOMAIN assets |->
        IF b = a THEN ReconciledAsset(j, rowNumber)
        ELSE IF assets[b] = ReconciledAsset(j, rowNumber) THEN FreshAsset
        ELSE assets[b]]

\* assets.updateOne({ _id }, ...): a no-op for an id the catalog does not hold
MarkReconciled(j, rowNumber, selectedAssetId) ==
    LET a == ObjectId(selectedAssetId) IN
    IF a \in DOMAIN assets
    THEN [assets EXCEPT ![a] = ReconciledAsset(j, rowNumber)]
    ELSE assets

\* ------------------------------------------------------------- postDecision
ValidDecisions == {"match", "no_match", "pending"}
\* What a request body may hold as decision, rowNumber and selectedAssetId.
DecisionInputs == ValidDecisions \cup {"other"}
RowNumberInputs == RowNumbers \cup {Null}
\* An id that no catalog entry has
UnknownAsset == NAssets + 1
AssetIdInputs ==
    { IdToString(a) : a \in Assets \cup {UnknownAsset} } \cup { <<>>, BadHex }

\* The requests: <<jobId, rowNumber, decision, selectedAssetId>>
DecisionRequests == JobIds \X RowNumberInputs \X DecisionInputs \X AssetIdInputs

\* The checks without the one for a match that names no asset
InvalidDecisionRequestNoMatchCheck(rowNumber, decision, selectedAssetId) ==
    \/ rowNumber = Null
    \/ decision \notin ValidDecisions

\* The three checks of the controller that answer 400.
InvalidDecisionRequest(rowNumber, decision, selectedAssetId) ==
    \/ rowNumber = Null
    \/ decision \notin ValidDecisions
    \/ decision = "match" /\ selectedAssetId = <<>>

\* How a request ends: 400 on a failed check of the controller, 500 when
\* new ObjectId throws, 404 when the filter matches no row, else the writes.
DecisionOutcome(j, rowNumber, decision, selectedAssetId) ==
    IF InvalidDecisionRequest(rowNumber, decision, selectedAssetId) THEN "validation"
    ELSE IF selectedAssetId # <<>> /\ ~ValidHex(selectedAssetId) THEN "error"
    ELSE IF ~DecisionMatches(j, rowNumber) THEN "notfound"
    ELSE "ok"

\* The requests that pass the checks of the controller and name an asset id
\* that new ObjectId accepts, or none
WellFormedRequests ==
    { q \in DecisionRequests :
        /\ ~InvalidDecisionRequest(q[2], q[3], q[4])
        /\ q[4] = <<>> \/ ValidHex(q[4]) }

\* The requests that end with `outcome` whatever the jobs are (400 and 500)
RequestsEnding(outcome) ==
    { q \in DecisionRequests \ WellFormedRequests :
        DecisionOutcome(q[1], q[2], q[3], q[4]) = outcome }

\* The job ids and row numbers the well-formed requests address
RequestTargets == { <<q[1], q[2]>> : q \in WellFormedRequests }

PostDecisionInvalid ==
    /\ dec.pc = "idle"
    /\ RequestsEnding("validation") # {}
    /\ resp' = [op |-> "setDecision", result |-> "validation"]
    /\ ext' = "none"
    /\ UNCHANGED <<jobs, nextJobId, assets, runs, dec, ar, issued, pipelineVars>>

\* new ObjectId(selectedAssetId) throws before any write: answered 500.
PostDecisionBadId ==
    /\ dec.pc = "idle"
    /\ RequestsEnding("error") # {}
    /\ resp' = [op |-> "setDecision", result |-> "error"]
    /\ ext' = "none"
    /\ UNCHANGED <<jobs, nextJobId, assets, runs, dec, ar, issued, pipelineVars>>

\* matchedCount === 0: 'Job o fila no encontrados', answered 404.
PostDecisionNotFound ==
    /\ dec.pc = "idle"
    /\ { t \in RequestTargets : ~DecisionMatches(t[1], t[2]) } # {}
    /\ resp' = [op |-> "setDecision", result |-> "notfound"]
    /\ ext' = "none"
    /\ UNCHANGED <<jobs, nextJobId, assets, runs, dec, ar, issued, pipelineVars>>

\* The row write of saveDecision. A match goes on to the asset write; any other
\* decision returns { success: true } at once.
PostDecisionRow(j, rowNumber, decision, selectedAssetId) ==
    /\ dec.pc = "idle"
    /\ issued < MaxDecisions
    /\ DecisionOutcome(j, rowNumber, decision, selectedAssetId) = "ok"
    /\ issued' = issued + 1
    /\ jobs' = [jobs EXCEPT ![j] =
                  DecisionUpdate(@, rowNumber, decision, selectedAssetId)]
    /\ IF decision = "match" /\ selectedAssetId # <<>>
       THEN /\ dec' = [pc |-> "catalog", job |-> j, rowNumber |-> rowNumber,
                       selectedAssetId |-> selectedAssetId]
            /\ resp' = NoResp
       ELSE /\ dec' = IdleDec
            /\ resp' = [op |-> "setDecision", result |-> "ok"]
    /\ ext' = "none"
    /\ UNCHANGED <<nextJobId, assets, runs, ar, pipelineVars>>

\* The asset write of saveDecision, then { success: true }.
PostDecisionCatalog ==
    /\ dec.pc = "catalog"
    /\ assets' = MarkReconciled(dec.job, dec.rowNumber, dec.selectedAssetId)
    /\ dec' = IdleDec
    /\ resp' = [op |-> "setDecision", result |-> "ok"]
    /\ ext' = "none"
    /\ UNCHANGED <<jobs, nextJobId, runs, ar, issued, pipelineVars>>

\* The process dies after the row write of saveDecision and before its asset
\* write: the request gets no answer and the asset write is never made.
SaveDecisionCrash ==
    /\ dec.pc = "catalog"
    /\ dec' = IdleDec
    /\ resp' = [op |-> "setDecision", result |-> "crash"]
    /\ ext' = "none"
    /\ UNCHANGED <<jobs, nextJobId, assets, runs, ar, issued, pipelineVars>>

\* --------------------------------------------------------- autoReconcileJob
\* Array.prototype.sort with (a, b) => key(b) - key(a): the positions of `keys`
\* by descending key, equal keys in their given order (the sort is stable).
RECURSIVE InsertDesc(_, _, _)
InsertDesc(order, x, keys) ==
    IF order = <<>> THEN <<x>>
    ELSE IF keys[Head(order)] >= keys[x]
         THEN <<Head(order)>> \o InsertDesc(Tail(order), x, keys)
         ELSE <<x>> \o order

RECURSIVE StableOrderUpTo(_, _)
StableOrderUpTo(keys, n) ==
    IF n = 0 THEN <<>> ELSE InsertDesc(StableOrderUpTo(keys, n - 1), n, keys)

SortDesc(s, keys) ==
    LET order == StableOrderUpTo(keys, Len(s)) IN
    [k \in DOMAIN s |-> s[order[k]]]

RECURSIVE MaxOf(_)
MaxOf(s) ==
    IF Len(s) = 1 THEN s[1]
    ELSE LET m == MaxOf(Tail(s)) IN IF s[1] >= m THEN s[1] ELSE m

ScoresOf(suggestions) == [k \in DOMAIN suggestions |-> suggestions[k].score]

\* suggestions.length ? Math.max(...scores) : 0
BestScore(row) ==
    IF Len(row.suggestions) > 0 THEN MaxOf(ScoresOf(row.suggestions)) ELSE 0

\* The seed: ids of the rows that are a match already
SeedAssigned(rows) ==
    { IdToString(rows[k].selectedAssetId) :
        k \in { m \in DOMAIN rows :
                  rows[m].decision = "match" /\ rows[m].selectedAssetId # Null } }

\* The filter that lets the no_match rows through
IsPendingRowOrNoMatch(row) == row.decision # "match"

\* row.decision !== 'match' && row.decision !== 'no_match'
IsPendingRow(row) == row.decision # "match" /\ row.decision # "no_match"

\* pendingRowsWithScore: the rows still pending, clearest first
PendingQueue(rows) ==
    LET pending == SelectSeq(rows, IsPendingRow) IN
    SortDesc(pending, [k \in DOMAIN pending |-> BestScore(pending[k])])

\* The predicate without the look-up in assignedIds
QualifiesIgnoringAssigned(s, minScore, assignedIds) ==
    /\ IdToString(s.assetId) # <<>>
    /\ ~(s.score < minScore)
    /\ ~s.isReconciled

\* The predicate of sorted.find(...)
Qualifies(s, minScore, assignedIds) ==
    /\ IdToString(s.assetId) # <<>>
    /\ ~(s.score < minScore)
    /\ IdToString(s.assetId) \notin assignedIds
    /\ ~s.isReconciled

\* The last element of the sorted suggestions that passes the predicate
CandidateLowest(row, minScore, assignedIds) ==
    LET sorted == SortDesc(row.suggestions, ScoresOf(row.suggestions))
        ok == { k \in DOMAIN sorted : Qualifies(sorted[k], minScore, assignedIds) }
    IN IF ok = {} THEN <<>>
       ELSE <<sorted[CHOOSE k \in ok : \A m \in ok : k >= m]>>

\* sorted.find(...): the candidate of a row as a one-element list, <<>> for
\* undefined.
Candidate(row, minScore, assignedIds) ==
    LET sorted == SortDesc(row.suggestions, ScoresOf(row.suggestions))
        ok == { k \in DOMAIN sorted : Qualifies(sorted[k], minScore, assignedIds) }
    IN IF ok = {} THEN <<>>
       ELSE <<sorted[CHOOSE k \in ok : \A m \in ok : k <= m]>>

\* The loop head: the next position >= k of the queue whose row has a
\* candidate (`continue` otherwise), Len + 1 when the loop ends.
RECURSIVE NextCandidateRow(_, _, _, _)
NextCandidateRow(queue, k, minScore, assignedIds) ==
    IF k > Len(queue) THEN k
    ELSE IF Candidate(queue[k], minScore, assignedIds) = <<>>
         THEN NextCandidateRow(queue, k + 1, minScore, assignedIds)
         ELSE k

\* The invocation moves on to queue position k; it returns when the queue ends.
ArAdvance(a, k) ==
    LET n == NextCandidateRow(a.queue, k, a.minScore, a.assignedIds) IN
    IF n > Len(a.queue) THEN IdleAr
    ELSE [a EXCEPT !.k = n, !.pc = "row",
                   !.candidate = IdToString(
                       Candidate(a.queue[n], a.minScore, a.assignedIds)[1].assetId)]

ArResp(a) ==
    IF a.pc = "idle" THEN [op |-> "autoReconcile", result |-> "ok"] ELSE NoResp

MinScores == 1..MaxScore

AutoReconcileNotFound(j) ==
    /\ ar.pc = "idle"
    /\ ~JobExists(j)
    /\ resp' = [op |-> "autoReconcile", result |-> "notfound"]
    /\ ext' = "none"
    /\ UNCHANGED <<jobs, nextJobId, assets, runs, dec, ar, issued, pipelineVars>>

\* findOne, the seed and the sorted queue; the loop runs up to its first write.
AutoReconcileStart(j, minScore) ==
    /\ ar.pc = "idle"
    /\ JobExists(j)
    /\ LET started == [IdleAr EXCEPT !.job = j, !.minScore = minScore,
                          !.assignedIds = SeedAssigned(jobs[j].rows),
                          !.queue = PendingQueue(jobs[j].rows),
                          !.totalRows = Len(jobs[j].rows)]
           next == ArAdvance(started, 1)
       IN /\ ar' = next
          /\ resp' = ArResp(next)
    /\ ext' = "none"
    /\ UNCHANGED <<jobs, nextJobId, assets, runs, dec, issued, pipelineVars>>

\* saveDecision(jobId, row.rowNumber, 'match', assetIdStr): the row write
ArRowWrite ==
    /\ ar.pc = "row"
    /\ DecisionMatches(ar.job, ar.queue[ar.k].rowNumber)
    /\ jobs' = [jobs EXCEPT ![ar.job] =
                  DecisionUpdate(@, ar.queue[ar.k].rowNumber, "match", ar.candidate)]
    /\ ar' = [ar EXCEPT !.pc = "catalog"]
    /\ resp' = NoResp
    /\ ext' = "none"
    /\ UNCHANGED <<nextJobId, assets, runs, dec, issued, pipelineVars>>

\* saveDecision throws 'Job o fila no encontrados': the invocation ends with it.
ArRowNotFound ==
    /\ ar.pc = "row"
    /\ ~DecisionMatches(ar.job, ar.queue[ar.k].rowNumber)
    /\ ar' = IdleAr
    /\ resp' = [op |-> "autoReconcile", result |-> "notfound"]
    /\ ext' = "none"
    /\ UNCHANGED <<jobs, nextJobId, assets, runs, dec, issued, pipelineVars>>

\* The asset write of saveDecision; assignedIds.add, autoMatched++, next row.
ArCatalogWrite ==
    /\ ar.pc = "catalog"
    /\ assets' = MarkReconciled(ar.job, ar.queue[ar.k].rowNumber, ar.candidate)
    /\ LET next == ArAdvance([ar EXCEPT !.assignedIds = @ \cup {ar.candidate},
                                        !.autoMatched = @ + 1,
                                        !.candidate = <<>>], ar.k + 1)
       IN /\ ar' = next
          /\ resp' = ArResp(next)
    /\ ext' = "none"
    /\ UNCHANGED <<jobs, nextJobId, runs, dec, issued, pipelineVars>>

\* ------------------------------------------------------------ getJobResults
\* The suggestions of a row joined with the catalog as it is at the read
ReturnedSuggestionsLive(row) ==
    [k \in DOMAIN row.suggestions |->
        [row.suggestions[k] EXCEPT
            !.isReconciled = assets[row.suggestions[k].assetId].isReconciled]]

\* suggestions: r.suggestions || []
ReturnedSuggestions(row) == row.suggestions

\* rows: { $slice: [offset, limit] }
Slice(rows, offset, limit) ==
    IF offset >= Len(rows) THEN <<>>
    ELSE SubSeq(rows, offset + 1, Min(offset + limit, Len(rows)))

\* What getJobResults returns for a job that exists
getJobResults(j, offset, limit) ==
    LET rows == Slice(jobs[j].rows, offset, limit) IN
    [jobId |-> j,
     status |-> jobs[j].status,
     totalRows |-> jobs[j].totalRows,
     processedRows |-> jobs[j].processedRows,
     rows |-> [k \in DOMAIN rows |->
                 [rowNumber |-> rows[k].rowNumber,
                  sapDescription |-> rows[k].sapDescription,
                  sapLocation |-> rows[k].sapLocation,
                  suggestions |-> ReturnedSuggestions(rows[k]),
                  decision |-> rows[k].decision,
                  selectedAssetId |-> rows[k].selectedAssetId]]]

\* getJob of the controller: the result of getJobResults, or 404 on 'Job no
\* encontrado'
getJobOutcome(j) == IF JobExists(j) THEN "ok" ELSE "notfound"

GetJob(j) ==
    /\ resp' = [op |-> "getJob", result |-> getJobOutcome(j)]
    /\ ext' = "none"
    /\ UNCHANGED <<jobs, nextJobId, assets, runs, dec, ar, issued, pipelineVars>>

\* ------------------------------------------------------------------ deleteJob
DeleteJob(j) ==
    /\ JobExists(j)
    /\ jobs' = [k \in DOMAIN jobs \ {j} |-> jobs[k]]
    /\ resp' = [op |-> "deleteJob", result |-> "ok"]
    /\ ext' = "none"
    /\ UNCHANGED <<nextJobId, assets, runs, dec, ar, issued, pipelineVars>>

DeleteJobNotFound(j) ==
    /\ ~JobExists(j)
    /\ resp' = [op |-> "deleteJob", result |-> "notfound"]
    /\ ext' = "none"
    /\ UNCHANGED <<jobs, nextJobId, assets, runs, dec, ar, issued, pipelineVars>>

\* ---------------------------------------------------- scripts/backfill-all.js
\* The names of the catalog: none, a blank, the placeholder "X", the
\* placeholder "S N", and a real name.
NameInputs == { <<>>, <<Blank>>, <<"X">>, <<"S", Blank, "N">>, <<Letter>> }

LowerChar(c) ==
    CASE c = "X" -> "x" [] c = "S" -> "s" [] c = "N" -> "n" [] OTHER -> c

toLowerCase(str) == [k \in DOMAIN str |-> LowerChar(str[k])]

\* s.replace(/\s+/g, '')
RemoveBlanks(str) == SelectSeq(str, LAMBDA c : c # Blank)

\* placeholders of isMeaningfulValue
Placeholders ==
    { <<"s", "/", "m">>, <<"s", "\\", "m">>, <<"s", ".", "m">>,
      <<"s", "/", "n">>, <<"s", "\\", "n">>, <<"s", ".", "n">>,
      <<"n", "a">>, <<"n", "/", "a">>, <<"n", ".", "a", ".">>,
      <<"s", "i", "n", Blank, "m", "a", "r", "c", "a">>,
      <<"s", "i", "n", Blank, "m", "o", "d", "e", "l", "o">>,
      <<"n", "o", Blank, "a", "p", "l", "i", "c", "a">>,
      <<"n", "o", Blank, "a", "p", "l", "i", "c", "a", ".">>,
      <<"n", "o", Blank, "a", "p", "l", "i", "c", "a", Blank, "a">>,
      <<"s", "i", "n", Blank, "d", "a", "t", "o">>, <<"s", "d">>,
      <<"-">>, <<"-", "-">>, <<"-", "-", "-">>,
      <<"x">> }

CompactPlaceholders ==
    { <<"s", "/", "m">>, <<"s", "/", "n">>, <<"s", "m">>, <<"s", "n">> }

isMeaningfulValue(v) ==
    IF v = <<>> THEN FALSE
    ELSE LET s == toLowerCase(Trim(v)) IN
         /\ s # <<>>
         /\ s \notin Placeholders
         /\ RemoveBlanks(s) \notin CompactPlaceholders

\* buildAssetEmbeddingText of utils/embedding-text.js on an asset without
\* brand and model: [name, '', ''].join(' '), blanks collapsed, trimmed
buildAssetEmbeddingText(asset) == normalizeText(asset.name \o <<Blank, Blank>>)

\* { textEmbedding: { $exists: false } }
LacksEmbedding(e) == "textEmbedding" \notin entries[e].fields

\* The count taken over the entries that can be embedded only
CountPendingEmbeddable ==
    Cardinality({ e \in EntryIds :
                    LacksEmbedding(e) /\ isMeaningfulValue(entries[e].name) })

\* countDocuments({ textEmbedding: { $exists: false } })
CountPending == Cardinality({ e \in EntryIds : LacksEmbedding(e) })

\* { textEmbedding: { $exists: false }, embeddingSkipReason: { $exists: false } }
PendingFilter(e) ==
    /\ "textEmbedding" \notin entries[e].fields
    /\ "embeddingSkipReason" \notin entries[e].fields

\* .sort({ _id: 1 }): the ids of a set in ascending order
RECURSIVE SortedIds(_)
SortedIds(set) ==
    IF set = {} THEN <<>>
    ELSE LET m == CHOOSE x \in set : \A y \in set : x <= y
         IN <<m>> \o SortedIds(set \ {m})

\* find(...).sort({ _id: 1 }).limit(BATCH_SIZE).toArray()
FetchBatch == Take(SortedIds({ e \in EntryIds : PendingFilter(e) }), BatchSize)

\* The partition of a batch
ToSkip(batch) == SelectSeq(batch, LAMBDA e : ~isMeaningfulValue(entries[e].name))
ToEmbed(batch) == SelectSeq(batch, LAMBDA e : isMeaningfulValue(entries[e].name))

\* The loop also ends once the counters add up to the entries counted at start
LoopEndsByCount(run, batch) ==
    \/ Len(batch) = 0
    \/ run.processed + run.skipped + run.errors >= run.totalPending

\* if (assets.length === 0) break
LoopEnds(run, batch) == Len(batch) = 0

\* The skip marker written with the filter { _id } alone
SkipUpdateUnconditional(doc) ==
    [doc EXCEPT !.fields = @ \cup {"embeddingSkipReason", "embeddingVersion"}]

\* updateOne of skipOps on one document
SkipUpdate(doc) ==
    IF "textEmbedding" \notin doc.fields
    THEN [doc EXCEPT !.fields = @ \cup {"embeddingSkipReason", "embeddingVersion"}]
    ELSE doc

\* buildEmbeddingText of the script on an asset without brand and model: the
\* name trimmed when it is meaningful, joined, blanks collapsed, trimmed
buildEmbeddingText(asset) ==
    IF isMeaningfulValue(asset.name) THEN normalizeText(Trim(asset.name)) ELSE <<>>

\* The vector the provider computes for a text
EmbeddingOf(text) == <<"vector", text>>

\* response.data.map((d) => d.embedding) for the texts of toEmbed, the items
\* of the response at the positions `got` holding a vector: one element per
\* text, in the order of the texts, <<>> for undefined
ResponseEmbeddings(toEmbed, got) ==
    [k \in DOMAIN toEmbed |->
        IF k \in got THEN EmbeddingOf(buildEmbeddingText(entries[toEmbed[k]])) ELSE <<>>]

\* The vectors of the response moved up to fill the undefined positions
EmbeddingForCompacted(embeddings, i) ==
    LET defined == SelectSeq(embeddings, LAMBDA v : v # <<>>) IN
    IF i <= Len(defined) THEN defined[i] ELSE <<>>

\* const embedding = embeddings[i]
EmbeddingFor(embeddings, i) == embeddings[i]

\* The i of toEmbed[i] for the entry e
PositionIn(toEmbed, e) == CHOOSE i \in DOMAIN toEmbed : toEmbed[i] = e

\* updateOne of ops on one document: $set with $unset of the skip reason
EmbedUpdate(doc, embeddingText, embedding) ==
    IF "textEmbedding" \notin doc.fields
    THEN [doc EXCEPT !.fields =
            (@ \cup {"embeddingText", "textEmbedding", "embeddingVersion"})
                \ {"embeddingSkipReason"},
                     !.text = embeddingText,
                     !.vector = embedding]
    ELSE doc

\* The elements of a sequence
Elems(seq) == { seq[k] : k \in DOMAIN seq }

\* What the provider may answer with an error: an HTTP status or a socket code
ProviderErrors ==
    { [status |-> 429, code |-> "none"], [status |-> 500, code |-> "none"],
      [status |-> 599, code |-> "none"], [status |-> 400, code |-> "none"],
      [status |-> 401, code |-> "none"], [status |-> 0, code |-> "ETIMEDOUT"],
      [status |-> 0, code |-> "ECONNRESET"], [status |-> 0, code |-> "ENOTFOUND"] }

isRetryable(err) ==
    \/ err.status = 429
    \/ err.status >= 500 /\ err.status <= 599
    \/ err.code = "ETIMEDOUT"
    \/ err.code = "ECONNRESET"

\* The test taken with >= in place of >
GivesUpEarly(err, attempt) == ~isRetryable(err) \/ attempt >= MaxRetries

\* if (!isRetryable(err) || attempt > maxRetries) throw err, attempt already
\* incremented
GivesUp(err, attempt) == ~isRetryable(err) \/ attempt > MaxRetries

\* main up to the loop: the count, the dry-run exit, the nothing-to-do exit
BulkStart(r, dryRun) ==
    /\ bulk[r].pc = "idle"
    /\ LET totalPending == CountPending IN
       bulk' = [bulk EXCEPT ![r] =
                  IF dryRun THEN [IdleBulk EXCEPT !.pc = "done", !.result = "dry",
                                                  !.totalPending = totalPending]
                  ELSE IF totalPending = 0
                  THEN [IdleBulk EXCEPT !.pc = "done", !.result = "nothing"]
                  ELSE [IdleBulk EXCEPT !.pc = "fetch", !.totalPending = totalPending]]
    /\ UNCHANGED <<engineVars, entries, sample, loc>>

\* The fetch of a batch and its partition; the loop ends on an empty batch.
BulkFetch(r) ==
    /\ bulk[r].pc = "fetch"
    /\ LET batch == FetchBatch IN
       bulk' = [bulk EXCEPT ![r] =
                  IF LoopEnds(bulk[r], batch)
                  THEN [@ EXCEPT !.pc = "done", !.result = "completed",
                                 !.batch = <<>>, !.toSkip = <<>>, !.toEmbed = <<>>,
                                 !.ops = <<>>, !.embeddings = <<>>,
                                 !.attempt = 0, !.calls = 0]
                  ELSE [@ EXCEPT !.pc = IF ToSkip(batch) # <<>> THEN "skip" ELSE "embed",
                                 !.batch = batch,
                                 !.toSkip = ToSkip(batch),
                                 !.toEmbed = ToEmbed(batch),
                                 !.ops = <<>>, !.embeddings = <<>>,
                                 !.attempt = 0, !.calls = 0]]
    /\ UNCHANGED <<engineVars, entries, sample, loc>>

\* bulkWrite(skipOps); skipped += toSkip.length; continue when nothing is to embed
BulkSkipWrite(r) ==
    /\ bulk[r].pc = "skip"
    /\ entries' = [e \in EntryIds |->
                     IF e \in Elems(bulk[r].toSkip) THEN SkipUpdate(entries[e])
                     ELSE entries[e]]
    /\ bulk' = [bulk EXCEPT ![r].skipped = @ + Len(bulk[r].toSkip),
                            ![r].pc = IF bulk[r].toEmbed = <<>> THEN "fetch" ELSE "embed"]
    /\ UNCHANGED <<engineVars, sample, loc>>

\* errors += 1 for a failed batch
ErrorsAfterFailureOne(errors, toEmbed) == errors + 1

\* errors += toEmbed.length
ErrorsAfterFailure(errors, toEmbed) == errors + Len(toEmbed)

\* openai.embeddings.create throws err: getEmbeddingsBatch retries after the
\* backoff, or throws; main catches, counts the batch as errors and continues.
BulkEmbedFail(r, err) ==
    /\ bulk[r].pc = "embed"
    /\ IF GivesUp(err, bulk[r].attempt + 1)
       THEN /\ ErrorsAfterFailure(bulk[r].errors, bulk[r].toEmbed) <= MaxErrors
            /\ bulk' = [bulk EXCEPT
                          ![r].attempt = @ + 1,
                          ![r].calls = @ + 1,
                          ![r].errors = ErrorsAfterFailure(@, bulk[r].toEmbed),
                          ![r].pc = "fetch"]
       ELSE bulk' = [bulk EXCEPT ![r].attempt = @ + 1, ![r].calls = @ + 1]
    /\ UNCHANGED <<engineVars, entries, sample, loc>>

\* openai.embeddings.create returns; `got` are the positions of toEmbed for
\* which the response holds a vector. errors++ for every other position; the
\* ops are built, and with no op the loop goes on to the next fetch.
BulkEmbedOk(r, got) ==
    /\ bulk[r].pc = "embed"
    /\ got \subseteq DOMAIN bulk[r].toEmbed
    /\ LET ops == SelectSeq(bulk[r].toEmbed,
                            LAMBDA e : \E k \in got : bulk[r].toEmbed[k] = e)
           missing == Len(bulk[r].toEmbed) - Len(ops)
       IN /\ bulk[r].errors + missing <= MaxErrors
          /\ bulk' = [bulk EXCEPT ![r].calls = @ + 1,
                                  ![r].errors = @ + missing,
                                  ![r].ops = ops,
                                  ![r].embeddings = ResponseEmbeddings(bulk[r].toEmbed, got),
                                  ![r].pc = IF ops = <<>> THEN "fetch" ELSE "write"]
    /\ UNCHANGED <<engineVars, entries, sample, loc>>

\* bulkWrite(ops); processed += modifiedCount
BulkWrite(r) ==
    /\ bulk[r].pc = "write"
    /\ entries' = [e \in EntryIds |->
                     IF e \in Elems(bulk[r].ops)
                     THEN EmbedUpdate(entries[e], buildEmbeddingText(entries[e]),
                                      EmbeddingFor(bulk[r].embeddings,
                                                   PositionIn(bulk[r].toEmbed, e)))
                     ELSE entries[e]]
    /\ bulk' = [bulk EXCEPT
                  ![r].processed =
                      @ + Cardinality({ e \in Elems(bulk[r].ops) : LacksEmbedding(e) }),
                  ![r].pc = "fetch"]
    /\ UNCHANGED <<engineVars, sample, loc>>

\* A step of a bulk run after its start, the provider failing with one of errs
BulkStepOn(r, errs) ==
    \/ BulkFetch(r)
    \/ BulkSkipWrite(r)
    \/ \E err \in errs : BulkEmbedFail(r, err)
    \/ \E got \in SUBSET (1..BatchSize) : BulkEmbedOk(r, got)
    \/ BulkWrite(r)

BulkStep(r) == BulkStepOn(r, ProviderErrors)

\* The failures that getEmbeddingsBatch does not retry
FatalErrors == { err \in ProviderErrors : ~isRetryable(err) }

\* ------------------------------------------------------ backfillSampleAssets
\* The limits a caller passes
SampleLimits == 1..NEntries

\* The loop head: the next position >= k of the documents read whose
\* embedding text is not empty (`continue` otherwise), Len + 1 at the end.
RECURSIVE NextSample(_, _)
NextSample(queue, k) ==
    IF k > Len(queue) THEN k
    ELSE IF buildAssetEmbeddingText(entries[queue[k]]) = <<>>
         THEN NextSample(queue, k + 1)
         ELSE k

SampleAdvance(queue, k) ==
    LET n == NextSample(queue, k) IN
    IF n > Len(queue) THEN IdleSample
    ELSE [pc |-> "embed", queue |-> queue, k |-> n]

\* find({ textEmbedding: { $exists: false } }, { limit }).toArray(): at most
\* `limit` of the documents without textEmbedding, which ones is the store's
\* choice.
SampleStart(limit, found) ==
    /\ sample.pc = "idle"
    /\ found \subseteq { e \in EntryIds : LacksEmbedding(e) }
    /\ Cardinality(found) = Min(limit, CountPending)
    /\ sample' = SampleAdvance(SortedIds(found), 1)
    /\ UNCHANGED <<engineVars, entries, bulk, loc>>

\* getTextEmbedding returns
SampleEmbedOk ==
    /\ sample.pc = "embed"
    /\ sample' = [sample EXCEPT !.pc = "write"]
    /\ UNCHANGED <<engineVars, entries, bulk, loc>>

\* getTextEmbedding throws: backfillSampleAssets ends with the error
SampleEmbedFail ==
    /\ sample.pc = "embed"
    /\ sample' = IdleSample
    /\ UNCHANGED <<engineVars, entries, bulk, loc>>

\* updateOne({ _id }, { $set: { embeddingText, textEmbedding, ... } })
SampleUpdate(doc) ==
    [doc EXCEPT !.fields = @ \cup {"embeddingText", "textEmbedding", "embeddingVersion"},
                !.text = buildAssetEmbeddingText(doc),
                !.vector = EmbeddingOf(buildAssetEmbeddingText(doc))]

SampleWrite ==
    /\ sample.pc = "write"
    /\ entries' = [entries EXCEPT ![sample.queue[sample.k]] = SampleUpdate(@)]
    /\ sample' = SampleAdvance(sample.queue, sample.k + 1)
    /\ UNCHANGED <<engineVars, bulk, loc>>

\* -------------------------------------------------------- buildLocationMatch
Slash == "/"
Dot == "."
Backslash == "\\"
Caret == "^"
\* The characters of a location: two letters, the delimiter, a dot, a blank.
PathChars == {Letter, "b", Slash, Dot, Blank}
PathStrings == UNION { [1..m -> PathChars] : m \in 0..MaxPathLen }
\* What a caller may pass as locationFilter: a string or null.
FilterInputs ==
    { [type |-> "string", chars |-> c] : c \in PathStrings }
        \cup { [type |-> "null", chars |-> <<>>] }

\* The class [.*+?^${}()|[\]\\] of escapeRegex
RegexSpecials ==
    {".", "*", "+", "?", "^", "$", "{", "}", "(", ")", "|", "[", "]", Backslash}

\* escapeRegex that leaves the string as it is
escapeRegexNone(str) == str

\* str.replace(/[.*+?^${}()|[\]\\]/g, '\\$&')
RECURSIVE escapeRegex(_)
escapeRegex(str) ==
    IF str = <<>> THEN <<>>
    ELSE IF Head(str) \in RegexSpecials
         THEN <<Backslash, Head(str)>> \o escapeRegex(Tail(str))
         ELSE <<Head(str)>> \o escapeRegex(Tail(str))

\* The regular expression `re` matches a prefix of `text`: a backslash makes
\* the next character literal, a dot stands for any character, any other
\* character stands for itself.
RECURSIVE MatchHere(_, _)
MatchHere(re, text) ==
    IF re = <<>> THEN TRUE
    ELSE IF text = <<>> THEN FALSE
    ELSE IF Head(re) = Backslash /\ Len(re) >= 2
         THEN text[1] = re[2] /\ MatchHere(SubSeq(re, 3, Len(re)), Tail(text))
    ELSE IF Head(re) = Dot
         THEN MatchHere(Tail(re), Tail(text))
    ELSE text[1] = Head(re) /\ MatchHere(Tail(re), Tail(text))

\* { $regex: re } on a string field: anchored at the start by a leading ^,
\* else found anywhere.
RegexTest(re, text) ==
    IF re # <<>> /\ Head(re) = Caret
    THEN MatchHere(Tail(re), text)
    ELSE \E k \in 1..(Len(text) + 1) : MatchHere(re, SubSeq(text, k, Len(text)))

\* return null
NoLocationMatch == [kind |-> "none", equals |-> <<>>, regex |-> <<>>]

buildLocationMatch(locationFilter) ==
    IF locationFilter.type # "string" \/ locationFilter.chars = <<>>
    THEN NoLocationMatch
    ELSE LET trimmed == Trim(locationFilter.chars) IN
         IF trimmed = <<>> THEN NoLocationMatch
         ELSE [kind |-> "or", equals |-> trimmed,
               regex |-> <<Caret>> \o escapeRegex(trimmed) \o <<Slash>>]

\* { $or: [{ locationPath: trimmed }, { locationPath: { $regex } }] } on a
\* document with that locationPath
MatchesLocation(m, locationPath) ==
    \/ locationPath = m.equals
    \/ RegexTest(m.regex, locationPath)

\* processJob builds the location $match of its pipeline and the search
\* evaluates it on an entry with locationPath loc.path; without a locationMatch
\* the pipeline has no location stage.
ApplyLocationFilter ==
    /\ loc.pc = "input"
    /\ LET locationMatch == buildLocationMatch(loc.filter) IN
       loc' = [loc EXCEPT
                 !.pc = "done",
                 !.filtered = (locationMatch.kind # "none"),
                 !.accepted = IF locationMatch.kind = "none" THEN TRUE
                              ELSE MatchesLocation(locationMatch, loc.path)]
    /\ UNCHANGED <<engineVars, entries, bulk, sample>>

\* --------------------------------------------------------- HTTP answers
\* The status the controller answers with, given how the service call of the
\* request ended. postProcessJob does not await processJob: it has answered
\* 200 'processing' whatever processJob does afterwards. The other controllers
\* answer 404 when the error message includes 'no encontrado', else 500.
HttpAnswer(r) ==
    CASE r.op = "processJob" -> 200
      [] r.op = "createJob" -> IF r.result = "ok" THEN 200 ELSE 500
      [] r.op \in {"setDecision", "deleteJob"} ->
            CASE r.result = "ok" -> 200
              [] r.result = "validation" -> 400
              [] r.result = "notfound" -> 404
              [] OTHER -> 500
      [] OTHER -> 0

\* ------------------------------------------------------------ specification
\* A step of a processJob invocation that passed the initial checks
RunStep(r) ==
    \/ SetProcessing(r)
    \/ EmbedOk(r)
    \/ EmbedFail(r)
    \/ SearchOk(r)
    \/ SearchFail(r)
    \/ StoreRow(r)
    \/ Complete(r)

\* Job creation, processing and the decision endpoint, freely interleaved.
Next ==
    \/ \E rows \in InputRows : CreateJob(rows)
    \/ \E j \in JobIds : ProcessJobNotFound(j)
    \/ \E j \in JobIds : ProcessJobRejected(j)
    \/ \E r \in RunIds, j \in JobIds : ProcessJobStart(r, j)
    \/ \E r \in RunIds : RunStep(r)
    \/ PostDecisionInvalid
    \/ PostDecisionBadId
    \/ PostDecisionNotFound
    \/ \E q \in WellFormedRequests : PostDecisionRow(q[1], q[2], q[3], q[4])
    \/ PostDecisionCatalog

Spec == Init /\ [][Next]_vars

\* The operations that write, with autoReconcileJob: an invocation of it runs
\* with no other operation in between its steps.
Others ==
    \/ \E rows \in InputRows : CreateJob(rows)
    \/ \E r \in RunIds, j \in JobIds : ProcessJobStart(r, j)
    \/ \E r \in RunIds : RunStep(r)
    \/ \E q \in WellFormedRequests : PostDecisionRow(q[1], q[2], q[3], q[4])
    \/ PostDecisionCatalog

NextAuto ==
    \/ ar.pc = "idle" /\ Others
    \/ \E j \in JobIds : AutoReconcileNotFound(j)
    \/ \E j \in JobIds, m \in MinScores : AutoReconcileStart(j, m)
    \/ ArRowWrite
    \/ ArCatalogWrite

SpecAuto == Init /\ [][NextAuto]_vars

\* Every await of a processJob invocation returns, with a result or an error:
\* an invocation that can take a step takes one.
\* The requests that only answer with an error are left out: they change
\* nothing but the answer.
NextLive ==
    \/ \E rows \in InputRows : CreateJob(rows)
    \/ \E j \in JobIds : ProcessJobRejected(j)
    \/ \E r \in RunIds, j \in JobIds : ProcessJobStart(r, j)
    \/ \E r \in RunIds : RunStep(r)
    \/ \E q \in WellFormedRequests : PostDecisionRow(q[1], q[2], q[3], q[4])
    \/ PostDecisionCatalog

SpecLive == Init /\ [][NextLive]_vars /\ \A r \in RunIds : WF_vars(RunStep(r))

\* processJob invoked again while an earlier invocation has not ended: the
\* controller starts processJob in the background on every request, so several
\* invocations can be in flight at once.
InvocationIds == 1..NOverlap

InitReprocess ==
    /\ jobs = <<>>
    /\ nextJobId = 1
    /\ assets = [a \in Assets |-> FreshAsset]
    /\ runs = [r \in InvocationIds |-> IdleRun]
    /\ dec = IdleDec
    /\ ar = IdleAr
    /\ issued = 0
    /\ resp = NoResp
    /\ ext = "none"
    /\ PipelineIdle

NextReprocess ==
    \/ \E rows \in InputRows : CreateJob(rows)
    \/ \E j \in JobIds : ProcessJobRejected(j)
    \/ \E r \in InvocationIds, j \in JobIds : ProcessJobStart(r, j)
    \/ \E r \in InvocationIds : RunStep(r)

SpecReprocess == InitReprocess /\ [][NextReprocess]_vars

\* A job as processJob and the decision endpoint leave it: NAutoRows rows
\* numbered 1..NAutoRows, each with the suggestions of some search (best
\* first, none flagged reconciled), all pending or one of them decided as a
\* match, whose entry is then reconciled in the catalog. Any other entry is
\* not reconciled, or was reconciled by a job that exists no more.
StoredSuggestionLists ==
    { [k \in DOMAIN raw |-> [assetId |-> raw[k][1], isReconciled |-> FALSE,
                             score |-> raw[k][2]]] :
        raw \in RankedLists(Assets, NAssets) }

ProcessedJobs ==
    { [status |-> "completed",
       totalRows |-> NAutoRows,
       processedRows |-> NAutoRows,
       rows |-> [k \in 1..NAutoRows |->
                   [rowNumber |-> k,
                    sapDescription |-> <<Blank, Letter>>,
                    sapLocation |-> <<Letter>>,
                    suggestions |-> sugg[k],
                    decision |-> IF k = matched[1] THEN "match" ELSE "pending",
                    selectedAssetId |-> IF k = matched[1] THEN matched[2] ELSE Null]]] :
        sugg \in [1..NAutoRows -> StoredSuggestionLists],
        matched \in (0..NAutoRows) \X Assets }

\* The id of a second job, created after the first one was processed and
\* deleted since: a match of its row 1 has left its entry reconciled.
OtherJob == 2

InitAutoRows ==
    /\ jobs \in { <<doc>> : doc \in ProcessedJobs }
    /\ nextJobId = OtherJob + 1
    /\ assets \in { cat \in [Assets -> {FreshAsset, ReconciledAsset(OtherJob, 1)}
                                      \cup { ReconciledAsset(1, k) : k \in 1..NAutoRows }] :
                       \A a \in Assets, k \in 1..NAutoRows :
                          /\ (jobs[1].rows[k].decision = "match"
                                /\ jobs[1].rows[k].selectedAssetId = a)
                                => cat[a] = ReconciledAsset(1, k)
                          /\ cat[a] = ReconciledAsset(1, k)
                                => /\ jobs[1].rows[k].decision = "match"
                                   /\ jobs[1].rows[k].selectedAssetId = a }
    /\ runs = [r \in RunIds |-> [IdleRun EXCEPT !.pc = "done", !.job = 1]]
    /\ dec = IdleDec
    /\ ar = IdleAr
    /\ issued = 0
    /\ resp = NoResp
    /\ ext = "none"
    /\ PipelineIdle

\* One autoReconcileJob invocation after the other on that job
NextAutoRows ==
    \/ \E j \in JobIds, m \in MinScores : AutoReconcileStart(j, m)
    \/ ArRowWrite
    \/ ArCatalogWrite

SpecAutoRows == InitAutoRows /\ [][NextAutoRows]_vars

\* The decision endpoint and processJob interleaved with the steps of an
\* autoReconcileJob invocation: every await of the invocation lets another
\* request in.
NextConcurrent ==
    \/ \E rows \in InputRows : CreateJob(rows)
    \/ \E r \in RunIds, j \in JobIds : ProcessJobStart(r, j)
    \/ \E r \in RunIds : RunStep(r)
    \/ \E q \in WellFormedRequests : PostDecisionRow(q[1], q[2], q[3], q[4])
    \/ PostDecisionCatalog
    \/ \E j \in JobIds, m \in MinScores : AutoReconcileStart(j, m)
    \/ ArRowWrite
    \/ ArCatalogWrite

SpecConcurrent == Init /\ [][NextConcurrent]_vars

\* Decision requests and deleteJob on a job that was processed and may hold a
\* match already: a row is decided again, an entry is selected again, the job
\* is deleted.
NextRedecide ==
    \/ \E q \in WellFormedRequests : PostDecisionRow(q[1], q[2], q[3], q[4])
    \/ PostDecisionCatalog
    \/ \E j \in JobIds : DeleteJob(j)

SpecRedecide == InitAutoRows /\ [][NextRedecide]_vars

\* Decision requests on a processed job that may hold a match already, the
\* process dying between the two writes of saveDecision or not.
NextCrash ==
    \/ \E q \in WellFormedRequests : PostDecisionRow(q[1], q[2], q[3], q[4])
    \/ PostDecisionCatalog
    \/ SaveDecisionCrash

SpecCrash == InitAutoRows /\ [][NextCrash]_vars

\* deleteJob and getJob at any moment of a processJob run and of an
\* autoReconcileJob invocation
NextDelete ==
    \/ \E rows \in InputRows : CreateJob(rows)
    \/ \E r \in RunIds, j \in JobIds : ProcessJobStart(r, j)
    \/ \E r \in RunIds : RunStep(r)
    \/ \E j \in JobIds, m \in MinScores : AutoReconcileStart(j, m)
    \/ ArRowWrite
    \/ ArRowNotFound
    \/ ArCatalogWrite
    \/ \E j \in JobIds : DeleteJob(j)
    \/ \E j \in JobIds : GetJob(j)

SpecDelete == Init /\ [][NextDelete]_vars

\* A catalog of entries with any names and no embedding field yet
InitBackfill ==
    /\ InitEngine
    /\ entries \in { [e \in EntryIds |-> FreshEntry(names[e])] :
                       names \in [EntryIds -> NameInputs] }
    /\ bulk = [r \in BulkIds |-> IdleBulk]
    /\ sample = IdleSample
    /\ loc = IdleLoc

\* Bulk runs one after the other, with nothing else writing to the catalog
NextRerun ==
    \/ \E r \in BulkIds, dryRun \in BOOLEAN :
          /\ \A o \in BulkIds : IF o < r THEN bulk[o].pc = "done" ELSE bulk[o].pc = "idle"
          /\ BulkStart(r, dryRun)
    \/ \E r \in BulkIds : BulkStep(r)

SpecRerun == InitBackfill /\ [][NextRerun]_vars

\* The steps of the sample backfill
SampleStep ==
    \/ \E limit \in SampleLimits, found \in SUBSET EntryIds : SampleStart(limit, found)
    \/ SampleEmbedOk
    \/ SampleEmbedFail
    \/ SampleWrite

\* Bulk runs one after the other, interleaved with the sample backfill. A
\* retried provider call writes nothing, so the provider fails here with the
\* failures that are not retried only; the retries are in SpecRerun.
NextBackfill ==
    \/ \E r \in BulkIds, dryRun \in BOOLEAN :
          /\ \A o \in BulkIds : IF o < r THEN bulk[o].pc = "done" ELSE bulk[o].pc = "idle"
          /\ BulkStart(r, dryRun)
    \/ \E r \in BulkIds : BulkStepOn(r, FatalErrors)
    \/ SampleStep

SpecBackfill == InitBackfill /\ [][NextBackfill]_vars

\* Bulk runs that overlap in any way, the provider failing as in NextBackfill
NextOverlap ==
    \/ \E r \in BulkIds, dryRun \in BOOLEAN : BulkStart(r, dryRun)
    \/ \E r \in BulkIds : BulkStepOn(r, FatalErrors)

SpecOverlap == InitBackfill /\ [][NextOverlap]_vars

\* A catalog whose entries have one of two different names or a placeholder,
\* and no embedding field yet; the bulk runs overlap in any way, and a run that
\* stopped half-way is followed by another one.
TextInputs == { <<Letter>>, <<"b">>, <<"X">> }

InitTexts ==
    /\ InitEngine
    /\ entries \in { [e \in EntryIds |-> FreshEntry(names[e])] :
                       names \in [EntryIds -> TextInputs] }
    /\ bulk = [r \in BulkIds |-> IdleBulk]
    /\ sample = IdleSample
    /\ loc = IdleLoc

SpecTexts == InitTexts /\ [][NextOverlap]_vars

\* buildLocationMatch on every filter and every location path
InitLocation ==
    /\ InitEngine
    /\ entries = [e \in EntryIds |-> FreshEntry(<<Letter>>)]
    /\ bulk = [r \in BulkIds |-> IdleBulk]
    /\ sample = IdleSample
    /\ loc \in { [IdleLoc EXCEPT !.pc = "input", !.filter = f, !.path = p] :
                  f \in FilterInputs, p \in PathStrings }

NextLocation == ApplyLocationFilter

SpecLocation == InitLocation /\ [][NextLocation]_vars

\* -------------------------------------------------------------------- claims
\* C1: when an autoReconcileJob invocation that runs alone writes a match on a
\* row, the row holds the candidate and no other row of the job is a match with
\* that asset id, be it a row matched before the invocation or by it.
C1_AutoReconcileAssignsEachIdOnce ==
    [][(ar.pc = "row" /\ ar'.pc = "catalog") =>
          LET rows == jobs'[ar.job].rows
              k == RowIndex(rows, ar.queue[ar.k].rowNumber)
          IN /\ rows[k].decision = "match"
             /\ rows[k].selectedAssetId = ObjectId(ar.candidate)
             /\ \A m \in DOMAIN rows \ {k} :
                   ~(rows[m].decision = "match"
                       /\ rows[m].selectedAssetId = rows[k].selectedAssetId)]_vars

\* C1 witness: both rows of a job had the same entry as their best candidate,
\* above the threshold; the invocation ended and exactly one row is a match with
\* that entry, the other one with another entry.
C1_Witness ==
    /\ resp = [op |-> "autoReconcile", result |-> "ok"]
    /\ issued = 0
    /\ \E j \in DOMAIN jobs, a \in Assets :
         /\ Len(jobs[j].rows) = 2
         /\ \A k \in 1..2 :
              /\ Len(jobs[j].rows[k].suggestions) = 2
              /\ jobs[j].rows[k].suggestions[1].assetId = a
              /\ jobs[j].rows[k].decision = "match"
         /\ jobs[j].rows[1].suggestions[1].score < jobs[j].rows[2].suggestions[1].score
         /\ jobs[j].rows[2].selectedAssetId = a
         /\ jobs[j].rows[1].selectedAssetId # a

\* C4: a processJob invocation that passed the initial checks on job j leads to
\* a state where the status of job j is completed.
C4_RunCompletes ==
    \A r \in RunIds, j \in JobIds :
        (runs[r].pc = "setProcessing" /\ runs[r].job = j)
            ~> (JobExists(j) /\ jobs[j].status = "completed")

\* C4 witness: a completed job of two rows with text, none of which was stored.
C4_Witness ==
    \E j \in DOMAIN jobs :
        /\ jobs[j].status = "completed"
        /\ Len(jobs[j].rows) = 2
        /\ \A k \in 1..2 : normalizeText(jobs[j].rows[k].sapDescription) # <<>>
        /\ jobs[j].processedRows = 0

\* The processJob invocations that passed the initial checks on job j
RunsOn(j) == { r \in RunIds : runs[r].pc # "idle" /\ runs[r].job = j }

\* The run r makes a step.
Stepped(r) == runs'[r] # runs[r]

\* C2: while a job has had a single processJob run, every step leaves the stored
\* processedRows at least as large as it was and at most totalRows, and the row
\* write of the run raises it by exactly one.
C2_ProgressMonotonic ==
    [][\A j \in JobIds :
         (JobExists(j) /\ j \in DOMAIN jobs' /\ Cardinality(RunsOn(j)') <= 1) =>
            /\ jobs'[j].processedRows >= jobs[j].processedRows
            /\ jobs'[j].processedRows <= jobs'[j].totalRows
            /\ jobs'[j].totalRows = Len(jobs'[j].rows)
            /\ \A r \in RunIds :
                 (runs[r].job = j /\ runs[r].pc = "store" /\ Stepped(r)) =>
                    jobs'[j].processedRows = jobs[j].processedRows + 1]_vars

\* C2 witness: a completed run that wrote both rows of a two-row job.
C2_Witness ==
    \E j \in DOMAIN jobs :
        /\ jobs[j].status = "completed"
        /\ jobs[j].totalRows = 2
        /\ jobs[j].processedRows = 2

\* C3: createJob stores a pending job with processedRows 0, totalRows the
\* number of input rows, and the input rows in their order, each pending with
\* no suggestions and no selected asset; it makes no external call and leaves
\* the catalog alone.
C3_CreateJobStoresPendingRows ==
    [][\A rows \in InputRows :
         CreateJob(rows) =>
            LET doc == jobs'[nextJobId] IN
            /\ doc.status = "pending"
            /\ doc.processedRows = 0
            /\ doc.totalRows = Len(rows)
            /\ Len(doc.rows) = Len(rows)
            /\ \A k \in DOMAIN rows :
                 /\ doc.rows[k].rowNumber = rows[k].rowNumber
                 /\ doc.rows[k].sapDescription = rows[k].sapDescription
                 /\ doc.rows[k].decision = "pending"
                 /\ doc.rows[k].suggestions = <<>>
                 /\ doc.rows[k].selectedAssetId = Null
            /\ ext' = "none"
            /\ assets' = assets]_vars

\* C3 witness: a job just created from two rows sent as row 2, then row 1.
C3_Witness ==
    /\ resp = [op |-> "createJob", result |-> "ok"]
    /\ \E j \in DOMAIN jobs :
         /\ Len(jobs[j].rows) = 2
         /\ jobs[j].rows[1].rowNumber = 2
         /\ jobs[j].rows[2].rowNumber = 1

\* A step that is the entry of processJob(j): findOne and the two checks.
ProcessJobCall(j) ==
    \/ ProcessJobNotFound(j)
    \/ ProcessJobRejected(j)
    \/ \E r \in RunIds : ProcessJobStart(r, j)

\* C5: processJob on a completed job ends with an error, changes neither the
\* job nor the catalog, starts no run and makes no external call.
C5_CompletedJobRejected ==
    [][\A j \in JobIds :
         (JobExists(j) /\ jobs[j].status = "completed" /\ ProcessJobCall(j)) =>
            /\ resp' = [op |-> "processJob", result |-> "error"]
            /\ jobs' = jobs
            /\ assets' = assets
            /\ runs' = runs
            /\ ext' = "none"]_vars

\* C5 witness: the error answer on a completed job that holds suggestions.
C5_Witness ==
    /\ resp = [op |-> "processJob", result |-> "error"]
    /\ \E j \in DOMAIN jobs :
         /\ jobs[j].status = "completed"
         /\ jobs[j].processedRows >= 1
         /\ \E k \in DOMAIN jobs[j].rows : jobs[j].rows[k].suggestions # <<>>

\* The run r leaves the embedding or the search of its row without a result.
RowFailed(r) ==
    \/ runs[r].pc = "embed" /\ Stepped(r) /\ runs'[r].pc # "search"
    \/ runs[r].pc = "search" /\ Stepped(r) /\ runs'[r].pc # "store"

\* C6: a failed embedding or search of a row changes no job (the row keeps its
\* suggestions, processedRows stays), and the run goes on with the next row
\* that has text, or to the final write when there is none.
C6_RowFailureDoesNotAbort ==
    [][\A r \in RunIds :
         RowFailed(r) =>
            /\ jobs' = jobs
            /\ runs'[r].processedRows = runs[r].processedRows
            /\ runs'[r].job = runs[r].job
            /\ runs'[r].descs = runs[r].descs
            /\ runs'[r].i > runs[r].i
            /\ \A k \in (runs[r].i + 1)..(runs'[r].i - 1) :
                 k <= Len(runs[r].descs) /\ normalizeText(runs[r].descs[k]) = <<>>
            /\ IF runs'[r].i <= Len(runs[r].descs)
               THEN runs'[r].pc = "embed"
               ELSE runs'[r].i = Len(runs[r].descs) + 1 /\ runs'[r].pc = "complete"]_vars

\* C6 witness: the first row of a job failed and left nothing, the second row
\* was stored with a suggestion, and the run completed.
C6_Witness ==
    \E j \in DOMAIN jobs :
        /\ jobs[j].status = "completed"
        /\ Len(jobs[j].rows) = 2
        /\ normalizeText(jobs[j].rows[1].sapDescription) # <<>>
        /\ jobs[j].rows[1].suggestions = <<>>
        /\ jobs[j].rows[2].suggestions # <<>>
        /\ jobs[j].processedRows = 1

\* The requests the claim calls invalid: no rowNumber, a decision outside the
\* three, or a match without a selectedAssetId.
FailsValidation(q) ==
    \/ q[2] = Null
    \/ q[3] \notin {"match", "no_match", "pending"}
    \/ q[3] = "match" /\ q[4] = <<>>

\* C7: a request without rowNumber, with an unknown decision, or with a match
\* and no selectedAssetId ends as a validation failure and never reaches the row
\* write; the validation answer comes with no change of a job, of the catalog or
\* of any invocation in flight.
C7_InvalidDecisionChangesNothing ==
    [][/\ \A q \in DecisionRequests :
            FailsValidation(q) =>
               /\ DecisionOutcome(q[1], q[2], q[3], q[4]) = "validation"
               /\ ~PostDecisionRow(q[1], q[2], q[3], q[4])
       /\ (resp' = [op |-> "setDecision", result |-> "validation"] /\ resp' # resp) =>
             /\ jobs' = jobs
             /\ assets' = assets
             /\ runs' = runs
             /\ dec' = dec
             /\ ar' = ar]_vars

\* C7 witness: the validation answer while a job with pending rows exists.
C7_Witness ==
    /\ resp = [op |-> "setDecision", result |-> "validation"]
    /\ \E j \in DOMAIN jobs :
         \E k \in DOMAIN jobs[j].rows :
            jobs[j].rows[k].decision = "pending" /\ jobs[j].rows[k].suggestions # <<>>

\* C8: in every state, a row whose decision is no_match has no suggestions.
C8_NoMatchRowsHaveNoSuggestions ==
    \A j \in DOMAIN jobs :
        \A k \in DOMAIN jobs[j].rows :
            jobs[j].rows[k].decision = "no_match" => jobs[j].rows[k].suggestions = <<>>

\* C9: the asset write that ends a match request leaves the entry reconciled
\* with the job and the row number of the request, and the answer is success;
\* an entry becomes reconciled only in the asset write of a saveDecision with
\* decision match that names it.
C9_MatchMarksEntryReconciled ==
    [][/\ (dec.pc = "catalog" /\ dec'.pc = "idle"
              /\ ObjectId(dec.selectedAssetId) \in Assets) =>
             /\ resp' = [op |-> "setDecision", result |-> "ok"]
             /\ assets'[ObjectId(dec.selectedAssetId)] =
                  [isReconciled |-> TRUE,
                   reconciledJobId |-> dec.job,
                   reconciledRowNumber |-> dec.rowNumber]
       /\ \A a \in Assets :
            (assets[a].isReconciled # TRUE /\ assets'[a].isReconciled = TRUE) =>
               \/ dec.pc = "catalog" /\ dec'.pc = "idle"
                    /\ dec.selectedAssetId = IdToString(a)
               \/ ar.pc = "catalog" /\ ar'.pc # "catalog"
                    /\ ar.candidate = IdToString(a)]_vars

\* C9 witness: success of a match on row number 2, stored first in its job, and
\* the entry carries that back-reference.
C9_Witness ==
    /\ resp = [op |-> "setDecision", result |-> "ok"]
    /\ \E j \in DOMAIN jobs, a \in Assets :
         /\ Len(jobs[j].rows) = 2
         /\ jobs[j].rows[1].rowNumber = 2
         /\ jobs[j].rows[1].decision = "match"
         /\ jobs[j].rows[1].selectedAssetId = a
         /\ assets[a] = [isReconciled |-> TRUE, reconciledJobId |-> j,
                         reconciledRowNumber |-> 2]

\* C10: the search of a row returns no entry that is reconciled when the search
\* runs, and the row write stores the entries that search returned, in its
\* order, flagged not reconciled.
C10_ReconciledNeverRetrieved ==
    [][\A r \in RunIds :
         /\ (runs[r].pc = "search" /\ runs'[r].pc = "store") =>
               \A k \in DOMAIN runs'[r].held :
                  assets[runs'[r].held[k]._id].isReconciled # TRUE
         /\ (runs[r].pc = "store" /\ Stepped(r) /\ runs[r].job \in DOMAIN jobs') =>
               LET stored == jobs'[runs[r].job].rows[runs[r].i].suggestions IN
               /\ Len(stored) = Len(runs[r].held)
               /\ \A k \in DOMAIN stored :
                    /\ stored[k].assetId = runs[r].held[k]._id
                    /\ stored[k].score = runs[r].held[k].score
                    /\ stored[k].isReconciled = FALSE]_vars

\* C10 witness: one entry is reconciled and the search made in the last step
\* has returned the other entry only.
C10_Witness ==
    \E r \in RunIds, a \in Assets :
        /\ ext = "search"
        /\ runs[r].pc = "store"
        /\ assets[a].isReconciled
        /\ Len(runs[r].held) = 1
        /\ runs[r].held[1]._id # a

\* C11: in every state, a row has a selectedAssetId exactly when its decision
\* is match.
C11_SelectedIffMatch ==
    \A j \in DOMAIN jobs :
        \A k \in DOMAIN jobs[j].rows :
            (jobs[j].rows[k].selectedAssetId # Null) <=> (jobs[j].rows[k].decision = "match")

\* C12: a step that records a match on a row (a new decision or a new selected
\* asset) selects the id of one of the suggestions the row holds when the step
\* is taken.
C12_MatchSelectsSuggestion ==
    [][\A j \in DOMAIN jobs \cap DOMAIN jobs' :
         \A k \in DOMAIN jobs[j].rows :
            LET old == jobs[j].rows[k]
                new == jobs'[j].rows[k]
            IN (new.decision = "match"
                  /\ <<new.decision, new.selectedAssetId>> #
                        <<old.decision, old.selectedAssetId>>) =>
                  \E n \in DOMAIN old.suggestions :
                     old.suggestions[n].assetId = new.selectedAssetId]_vars

\* C19: a request that ends because the job or the row does not exist is
\* answered with the not-found status.
C19_NotFoundIsAnswered404 ==
    resp.result = "notfound" => HttpAnswer(resp) = 404

\* The string `text` starts with the string `prefix`.
StartsWith(text, prefix) ==
    Len(text) >= Len(prefix) /\ SubSeq(text, 1, Len(prefix)) = prefix

\* Some character of the string is not a blank.
NonBlank(chars) == \E k \in DOMAIN chars : chars[k] # Blank

\* C20: for a filter string with a non-blank character the pipeline filters
\* by location and accepts exactly the paths equal to the trimmed filter or
\* starting with the trimmed filter followed by the delimiter; for null, the
\* empty string and blank strings there is no location filter.
C20_LocationMatchSelfOrDescendant ==
    loc.pc = "done" =>
        IF loc.filter.type = "string" /\ NonBlank(loc.filter.chars)
        THEN /\ loc.filtered
             /\ loc.accepted <=>
                   \/ loc.path = Trim(loc.filter.chars)
                   \/ StartsWith(loc.path, Trim(loc.filter.chars) \o <<Slash>>)
        ELSE ~loc.filtered

\* C20 witness: the filter " ." evaluated on the path "./a", its descendant.
C20_Witness ==
    /\ loc.pc = "done"
    /\ loc.filter = [type |-> "string", chars |-> <<Blank, Dot>>]
    /\ loc.path = <<Dot, Slash, Letter>>
    /\ loc.filtered
    /\ loc.accepted

\* C13: no catalog entry has both a textEmbedding and an embeddingSkipReason,
\* whatever the interleaving of bulk runs and the sample backfill.
C13_NeverEmbeddingAndSkipReason ==
    \A e \in EntryIds :
        ~({"textEmbedding", "embeddingSkipReason"} \subseteq entries[e].fields)

\* A bulk run that ended normally: the loop ran until a fetch found nothing,
\* or there was nothing pending at the start.
EndedNormally(run) == run.pc = "done" /\ run.result \in {"completed", "nothing"}

\* C14: a bulk run started directly after a bulk run that ended normally, with
\* no change of the catalog in between, never gets to a write or to an
\* embedding call: it is idle, at its first fetch, or done, and has processed,
\* skipped and failed nothing.
C14_SecondRunDoesNothing ==
    \A r \in BulkIds :
        (r > 1 /\ EndedNormally(bulk[r - 1])) =>
            /\ bulk[r].pc \in {"idle", "fetch", "done"}
            /\ bulk[r].calls = 0
            /\ bulk[r].processed = 0
            /\ bulk[r].skipped = 0
            /\ bulk[r].errors = 0

\* C14 witness: the first run embedded and skipped entries and ended; the
\* second run found entries without textEmbedding, fetched, and ended.
C14_Witness ==
    /\ EndedNormally(bulk[1])
    /\ bulk[1].processed > 0
    /\ bulk[1].skipped > 0
    /\ bulk[2].result = "completed"
    /\ bulk[2].totalPending > 0

\* C15: when the batched embedding call of a bulk run fails for good (after
\* its retries, or at once on a failure that is not retried), the run goes on:
\* its error counter grows by the number of entries that were to be embedded,
\* nothing is written to the catalog, nothing is counted as processed or
\* skipped, and the run is at the fetch of its next batch.
C15_FailedBatchIsCountedAndPassed ==
    [][\A r \in BulkIds, err \in ProviderErrors :
          (BulkEmbedFail(r, err) /\ GivesUp(err, bulk[r].attempt + 1)) =>
              /\ bulk'[r].errors = bulk[r].errors + Len(bulk[r].toEmbed)
              /\ entries' = entries
              /\ bulk'[r].processed = bulk[r].processed
              /\ bulk'[r].skipped = bulk[r].skipped
              /\ bulk'[r].pc = "fetch"
              /\ bulk'[r].result = "none"]_vars

\* C15 witness: a batch of two entries failed after the last retry; the run
\* counted two errors, is at its next fetch, and the two entries are as before.
C15_Witness ==
    \E r \in BulkIds :
        /\ bulk[r].pc = "fetch"
        /\ bulk[r].attempt = MaxRetries + 1
        /\ Len(bulk[r].toEmbed) = 2
        /\ bulk[r].errors = 2
        /\ \A e \in Elems(bulk[r].toEmbed) : entries[e].fields = {}

\* C16: every iteration of the loop of a bulk run makes progress: when the
\* run returns to the fetch, some entry of the batch it has just handled has
\* got a textEmbedding or an embeddingSkipReason, so that the next fetch does
\* not return the same batch again.
C16_EveryIterationMakesProgress ==
    [][\A r \in BulkIds :
          (bulk[r].pc \in {"skip", "embed", "write"} /\ bulk'[r].pc = "fetch") =>
              \E e \in Elems(bulk[r].batch) :
                  entries'[e].fields \cap {"textEmbedding", "embeddingSkipReason"} # {}]_vars

\* C17: once a bulk run that is not a dry run has ended normally, every entry
\* of the catalog (to which nothing is added) has a textEmbedding or an
\* embeddingSkipReason.
C17_EndedRunLeavesNoEntryPending ==
    \A r \in BulkIds :
        EndedNormally(bulk[r]) =>
            \A e \in EntryIds :
                entries[e].fields \cap {"textEmbedding", "embeddingSkipReason"} # {}

\* C17 witness: a run has ended its loop after it embedded entries, skipped
\* entries and had a failed batch, and no entry is left without both fields.
C17_Witness ==
    \E r \in BulkIds :
        /\ bulk[r].pc = "done"
        /\ bulk[r].result = "completed"
        /\ bulk[r].processed > 0
        /\ bulk[r].skipped > 0
        /\ bulk[r].errors > 0
        /\ \A e \in EntryIds : ~PendingFilter(e)

C21_SuggestionsAreSnapshots ==
    [][assets' # assets =>
          \A j \in DOMAIN jobs :
              /\ j \in DOMAIN jobs'
              /\ \A k \in DOMAIN jobs[j].rows :
                    jobs'[j].rows[k].suggestions = jobs[j].rows[k].suggestions
              /\ \A offset \in 0..NRows, limit \in 1..NRows :
                    getJobResults(j, offset, limit)' = getJobResults(j, offset, limit)]_vars

\* C21 witness: an entry has just been marked reconciled by a decision, and a
\* row still holds its suggestion of that entry with the flag as retrieved.
C21_Witness ==
    /\ resp = [op |-> "setDecision", result |-> "ok"]
    /\ \E j \in DOMAIN jobs, a \in Assets :
         /\ assets[a].isReconciled
         /\ \E k \in DOMAIN jobs[j].rows :
              \E n \in DOMAIN jobs[j].rows[k].suggestions :
                 /\ jobs[j].rows[k].suggestions[n].assetId = a
                 /\ ~jobs[j].rows[k].suggestions[n].isReconciled
                 /\ getJobResults(j, 0, NRows).rows[k].suggestions[n].isReconciled = FALSE

\* C22: a processJob run handles its rows in stored order, one at a time.
\* The embedding call, the search and the row write of a row follow each other
\* on the same row; the run leaves a row only when the row is stored or one of
\* its calls failed, and then goes to a later row, the first one with text,
\* starting with its embedding, so that no row is handled twice; every
\* external call is made by a run at that call, and by no other step.
C22_RowsInOrderOneAtATime ==
    [][/\ \A r \in RunIds :
            (Stepped(r) /\ runs[r].pc \in {"embed", "search", "store"}) =>
                /\ runs'[r].pc \in {"search", "store"} =>
                      /\ runs'[r].i = runs[r].i
                      /\ runs[r].pc = "embed" <=> runs'[r].pc = "search"
                      /\ runs[r].pc = "search" <=> runs'[r].pc = "store"
                /\ runs'[r].pc \notin {"search", "store"} =>
                      /\ runs'[r].i > runs[r].i
                      /\ runs'[r].pc = IF runs'[r].i <= Len(runs[r].descs)
                                       THEN "embed" ELSE "complete"
                      /\ \A k \in (runs[r].i + 1)..(runs'[r].i - 1) :
                            normalizeText(runs[r].descs[k]) = <<>>
       /\ ext' = "embed" => \E r \in RunIds : runs[r].pc = "embed" /\ Stepped(r)
       /\ ext' = "search" => \E r \in RunIds : runs[r].pc = "search" /\ Stepped(r)
       /\ \A r \in RunIds :
            (Stepped(r) /\ runs[r].pc \in {"embed", "search"}) =>
                ext' = runs[r].pc]_vars

\* C22 witness: a run has stored the first row of a two-row job and is at the
\* embedding of the second.
C22_Witness ==
    \E r \in RunIds :
        /\ runs[r].pc = "embed"
        /\ runs[r].i = 2
        /\ runs[r].processedRows = 1
        /\ JobExists(runs[r].job)
        /\ jobs[runs[r].job].rows[1].suggestions # <<>>
        /\ jobs[runs[r].job].rows[2].suggestions = <<>>

\* C23: once the status of a job is completed it stays completed, and no step
\* of a processJob invocation changes the job's processedRows or the
\* suggestions of any of its rows, also when invocations overlap.
C23_CompletedIsAbsorbing ==
    [][\A j \in DOMAIN jobs :
          (jobs[j].status = "completed" /\ j \in DOMAIN jobs') =>
              /\ jobs'[j].status = "completed"
              /\ (\E r \in DOMAIN runs : runs'[r] # runs[r]) =>
                    /\ jobs'[j].processedRows = jobs[j].processedRows
                    /\ \A k \in DOMAIN jobs[j].rows :
                          jobs'[j].rows[k].suggestions = jobs[j].rows[k].suggestions]_vars

\* C24: the stored processedRows of a job never decreases and never exceeds
\* totalRows, also when processJob is invoked again on a job that is not
\* completed.
C24_ProcessedRowsNeverDecreases ==
    [][\A j \in DOMAIN jobs :
          j \in DOMAIN jobs' =>
              /\ jobs'[j].processedRows >= jobs[j].processedRows
              /\ jobs'[j].processedRows <= jobs'[j].totalRows]_vars

\* The rows of job j other than row i are the same after the step.
OtherRowsUnchanged(j, i) ==
    \A k \in DOMAIN jobs[j].rows \ {i} : jobs'[j].rows[k] = jobs[j].rows[k]

\* C25: a processJob run makes its embedding and search calls only for rows
\* whose normalized description is not empty, and passes over the other rows
\* without a call, without a write to them and without counting them. Its
\* counter starts at 0, grows by one exactly at each row write (of a row with
\* text whose embedding and search succeeded) and is what the final write
\* stores as processedRows.
C25_EmptyRowsSkippedAndNotCounted ==
    [][\A r \in RunIds :
          Stepped(r) =>
             LET run == runs[r]
                 j == IF run.pc = "idle" THEN runs'[r].job ELSE run.job
             IN
             /\ run.pc = "idle" => runs'[r].processedRows = 0
             /\ run.pc \in {"embed", "search", "store"} =>
                   normalizeText(run.descs[run.i]) # <<>>
             /\ run.pc \in {"setProcessing", "embed", "search"} =>
                   /\ runs'[r].processedRows = run.processedRows
                   /\ JobExists(j) =>
                         /\ jobs'[j].rows = jobs[j].rows
                         /\ jobs'[j].processedRows = jobs[j].processedRows
             /\ run.pc = "store" =>
                   /\ runs'[r].processedRows = run.processedRows + 1
                   /\ JobExists(j) =>
                         /\ jobs'[j].processedRows = run.processedRows + 1
                         /\ OtherRowsUnchanged(j, run.i)
             /\ (run.pc \in {"setProcessing", "embed", "search", "store"}
                    /\ runs'[r].i # run.i) =>
                   \A k \in (run.i + 1)..(runs'[r].i - 1) :
                       /\ normalizeText(run.descs[k]) = <<>>
                       /\ JobExists(j) => jobs'[j].rows[k] = jobs[j].rows[k]
             /\ run.pc = "complete" =>
                   /\ run.i = Len(run.descs) + 1
                   /\ JobExists(j) =>
                         /\ jobs'[j].processedRows = run.processedRows
                         /\ jobs'[j].rows = jobs[j].rows]_vars

\* C25 witness: a run has completed a job of a blank row and a row with text;
\* the blank row has no suggestions, the other one was stored, and
\* processedRows is 1 of 2.
C25_Witness ==
    /\ resp = [op |-> "processJob", result |-> "completed"]
    /\ \E j \in DOMAIN jobs :
         /\ jobs[j].status = "completed"
         /\ jobs[j].totalRows = 2
         /\ normalizeText(jobs[j].rows[1].sapDescription) = <<>>
         /\ jobs[j].rows[1].suggestions = <<>>
         /\ normalizeText(jobs[j].rows[2].sapDescription) # <<>>
         /\ jobs[j].rows[2].suggestions # <<>>
         /\ jobs[j].processedRows = 1

\* No two rows of the list have the same rowNumber.
UniqueRowNumbers(rows) ==
    \A p, q \in DOMAIN rows : p # q => rows[p].rowNumber # rows[q].rowNumber

\* The suggestion s is one autoReconcile may select: its score is at least
\* minScore, its id is not in the assigned set, it is not flagged reconciled.
IsQualifying(s, minScore, assigned) ==
    /\ s.score >= minScore
    /\ IdToString(s.assetId) \notin assigned
    /\ ~s.isReconciled

HasQualifying(row, minScore, assigned) ==
    \E n \in DOMAIN row.suggestions : IsQualifying(row.suggestions[n], minScore, assigned)

\* The ids selected by the rows that are a match
MatchedIds(rows) ==
    { IdToString(rows[k].selectedAssetId) :
        k \in { m \in DOMAIN rows : rows[m].decision = "match"
                                     /\ rows[m].selectedAssetId # Null } }

\* The invocation goes from queue position `from` to where it is after the
\* step: the rows it passes have no qualifying suggestion under `assigned`,
\* and the row it stops at has one.
PassesRowsWithoutCandidate(queue, from, minScore, assigned) ==
    LET to == IF ar'.pc = "idle" THEN Len(queue) + 1 ELSE ar'.k IN
    /\ to > from
    /\ \A q \in (from + 1)..(to - 1) : ~HasQualifying(queue[q], minScore, assigned)
    /\ ar'.pc # "idle" =>
          /\ ar'.pc = "row"
          /\ ar'.queue = queue
          /\ ar'.assignedIds = assigned
          /\ HasQualifying(queue[to], minScore, assigned)

ScoreFor(row, id) ==
    IF \E n \in DOMAIN row.suggestions : IdToString(row.suggestions[n].assetId) = id
    THEN (CHOOSE s \in { row.suggestions[n] : n \in DOMAIN row.suggestions } :
              IdToString(s.assetId) = id).score
    ELSE 0

\* C28: when autoReconcileJob assigns an entry to a row, no row that is still
\* to be handled by the invocation has that entry as a qualifying candidate
\* with a higher score: of two pending rows that could take the entry, the one
\* with the higher score for it gets it.
C28_EntryGoesToMoreConfidentRow ==
    [][(ar.pc = "row" /\ ar'.pc = "catalog") =>
          \A q \in (ar.k + 1)..Len(ar.queue) :
              \A n \in DOMAIN ar.queue[q].suggestions :
                  LET s == ar.queue[q].suggestions[n] IN
                  (IdToString(s.assetId) = ar.candidate
                     /\ IsQualifying(s, ar.minScore, ar.assignedIds)) =>
                        s.score <= ScoreFor(ar.queue[ar.k], ar.candidate)]_vars

\* C30: when autoReconcileJob writes a match on a row, the catalog entry it
\* selects is not reconciled in the catalog at that moment.
C30_AutoNeverMatchesReconciledEntry ==
    [][(ar.pc = "row" /\ ar'.pc = "catalog") =>
          ~assets[ObjectId(ar.candidate)].isReconciled]_vars

\* C29: the row write of an autoReconcileJob invocation changes no row whose
\* decision is match or no_match when the write is made, whenever that
\* decision was recorded, before the invocation or while it is running. The
\* rows of the job have distinct row numbers.
C29_AutoNeverOverwritesDecision ==
    [][(ar.pc = "row" /\ ar'.pc = "catalog" /\ UniqueRowNumbers(jobs[ar.job].rows)) =>
          \A k \in DOMAIN jobs[ar.job].rows :
              jobs[ar.job].rows[k].decision \in {"match", "no_match"} =>
                  jobs'[ar.job].rows[k] = jobs[ar.job].rows[k]]_vars

\* C31: once a catalog entry is reconciled, no step changes its
\* reconciledJobId or its reconciledRowNumber, whatever decision is recorded
\* afterwards.
C31_BackReferenceSetOnce ==
    [][\A a \in Assets :
          assets[a].isReconciled =>
             /\ assets'[a].reconciledJobId = assets[a].reconciledJobId
             /\ assets'[a].reconciledRowNumber = assets[a].reconciledRowNumber]_vars

\* C32: saveDecision writes the row first and the catalog second. The step
\* that passes from the row write to the asset write has recorded the match of
\* that row with that entry and has left the catalog alone; a catalog entry
\* changes only in the asset write that follows such a row write, and gets the
\* job id and the row number of it; a crash between the two writes changes
\* neither the rows nor the catalog.
C32_RowFirstCatalogSecond ==
    [][/\ (dec'.pc = "catalog" /\ dec' # dec) =>
             LET rows == jobs'[dec'.job].rows
                 k == RowIndex(rows, dec'.rowNumber)
             IN /\ dec.pc = "idle"
                /\ rows[k].decision = "match"
                /\ rows[k].selectedAssetId = ObjectId(dec'.selectedAssetId)
                /\ assets' = assets
       /\ (ar'.pc = "catalog" /\ ar' # ar) =>
             LET rows == jobs'[ar'.job].rows
                 k == RowIndex(rows, ar'.queue[ar'.k].rowNumber)
             IN /\ ar.pc = "row"
                /\ rows[k].decision = "match"
                /\ rows[k].selectedAssetId = ObjectId(ar'.candidate)
                /\ assets' = assets
       /\ \A a \in Assets :
            assets'[a] # assets[a] =>
               \/ /\ dec.pc = "catalog" /\ dec'.pc = "idle"
                  /\ dec.selectedAssetId = IdToString(a)
                  /\ assets'[a] = [isReconciled |-> TRUE,
                                   reconciledJobId |-> dec.job,
                                   reconciledRowNumber |-> dec.rowNumber]
               \/ /\ ar.pc = "catalog" /\ ar' # ar
                  /\ ar.candidate = IdToString(a)
                  /\ assets'[a] = [isReconciled |-> TRUE,
                                   reconciledJobId |-> ar.job,
                                   reconciledRowNumber |-> ar.queue[ar.k].rowNumber]
       /\ SaveDecisionCrash => (jobs' = jobs /\ assets' = assets)]_vars

\* C32 witness: the process died between the two writes of a decision: a row
\* is a match with an entry that is not reconciled in the catalog.
C32_Witness ==
    /\ resp = [op |-> "setDecision", result |-> "crash"]
    /\ \E j \in DOMAIN jobs :
         \E k \in DOMAIN jobs[j].rows :
            /\ jobs[j].rows[k].decision = "match"
            /\ jobs[j].rows[k].selectedAssetId \in Assets
            /\ ~assets[jobs[j].rows[k].selectedAssetId].isReconciled

\* getTextEmbedding throws `err` in the run r: openai.embeddings.create is
\* called once, nothing in getTextEmbedding catches, and the catch of processJob
\* takes every error alike.
getTextEmbeddingThrows(r, err) == err \in ProviderErrors /\ EmbedFail(r)

\* C33: a retryable failure of the embedding call of a row is retried: after
\* the first such failure the run is still on the same row, about to call the
\* provider again.
C33_RetryableFailureIsRetried ==
    [][\A r \in RunIds, err \in ProviderErrors :
          (getTextEmbeddingThrows(r, err) /\ isRetryable(err)) =>
             /\ runs'[r].i = runs[r].i
             /\ runs'[r].pc = "embed"]_vars

\* C34: the skip write of a bulk run marks every entry of the batch whose name
\* is not meaningful and that still has no textEmbedding, and changes no other
\* entry; an entry gets the marker in no other step; no entry whose name is
\* not meaningful is among the entries a bulk run sends to the provider or
\* writes an embedding for; and no batch a bulk run fetches holds an entry
\* that carries the marker.
C34_SkipMarkerExcludesEntry ==
    [][/\ \A r \in BulkIds :
            (bulk[r].pc = "skip" /\ bulk'[r] # bulk[r]) =>
               \A e \in EntryIds :
                  IF e \in Elems(bulk[r].toSkip) /\ LacksEmbedding(e)
                  THEN /\ "embeddingSkipReason" \in entries'[e].fields
                       /\ "textEmbedding" \notin entries'[e].fields
                  ELSE entries'[e] = entries[e]
       /\ \A e \in EntryIds :
            ("embeddingSkipReason" \in entries'[e].fields
                /\ "embeddingSkipReason" \notin entries[e].fields) =>
               /\ ~isMeaningfulValue(entries[e].name)
               /\ \E r \in BulkIds :
                     bulk[r].pc = "skip" /\ e \in Elems(bulk[r].toSkip)
       /\ \A r \in BulkIds :
            \A e \in Elems(bulk'[r].toEmbed) \cup Elems(bulk'[r].ops) :
               isMeaningfulValue(entries'[e].name)
       /\ \A r \in BulkIds :
            (bulk[r].pc = "fetch" /\ bulk'[r] # bulk[r]) =>
               \A e \in Elems(bulk'[r].batch) :
                  "embeddingSkipReason" \notin entries[e].fields]_vars

\* C34 witness: a bulk run fetched two entries without a meaningful name and
\* wrote its skip operations after the sample backfill had embedded one of
\* them: one carries the marker, the other its embedding and no marker, and a
\* later fetch of the run took neither.
C34_Witness ==
    \E r \in BulkIds, e1, e2 \in EntryIds :
        /\ bulk[r].skipped = 2
        /\ bulk[r].pc = "embed"
        /\ e1 \notin Elems(bulk[r].batch) /\ e2 \notin Elems(bulk[r].batch)
        /\ ~isMeaningfulValue(entries[e1].name)
        /\ ~isMeaningfulValue(entries[e2].name)
        /\ "embeddingSkipReason" \in entries[e1].fields
        /\ "embeddingSkipReason" \notin entries[e2].fields
        /\ "textEmbedding" \in entries[e2].fields

\* C35: with bulk runs that overlap, an entry that has a textEmbedding keeps
\* it, with its embeddingText, in every step; the step that gives an entry its
\* textEmbedding leaves it without skip reason, with the text built from the
\* entry and the vector the provider computed for that text; and the write of
\* a run raises its processed counter by the number of entries it changed.
C35_EmbeddingWrittenOnce ==
    [][/\ \A e \in EntryIds :
            "textEmbedding" \in entries[e].fields =>
               /\ "textEmbedding" \in entries'[e].fields
               /\ entries'[e].vector = entries[e].vector
               /\ entries'[e].text = entries[e].text
       /\ \A e \in EntryIds :
            ("textEmbedding" \notin entries[e].fields
                /\ "textEmbedding" \in entries'[e].fields) =>
               /\ "embeddingSkipReason" \notin entries'[e].fields
               /\ entries'[e].text = buildEmbeddingText(entries[e])
               /\ entries'[e].vector = EmbeddingOf(buildEmbeddingText(entries[e]))
       /\ \A r \in BulkIds :
            (bulk[r].pc = "write" /\ bulk'[r] # bulk[r]) =>
               bulk'[r].processed =
                  bulk[r].processed
                     + Cardinality({ e \in EntryIds : entries'[e] # entries[e] })]_vars

\* C35 witness: two runs held an operation for the same entry; one wrote it
\* and counted it, the other one's write changed nothing and counted nothing;
\* two entries hold the vectors of two different texts.
C35_Witness ==
    /\ \E r1, r2 \in BulkIds, e \in EntryIds :
         /\ r1 # r2
         /\ e \in Elems(bulk[r1].ops) /\ e \in Elems(bulk[r2].ops)
         /\ bulk[r1].pc = "fetch" /\ bulk[r1].processed >= 1
         /\ bulk[r2].pc = "fetch" /\ bulk[r2].processed = 0
         /\ bulk[r2].calls = 1 /\ bulk[r2].errors = 0
    /\ \E e1, e2 \in EntryIds :
         /\ entries[e1].vector # <<>>
         /\ entries[e2].vector # <<>>
         /\ entries[e1].vector # entries[e2].vector

\* C36: a dry run ends at once with the number of entries that the fetch of a
\* real run selects (those with neither textEmbedding nor embeddingSkipReason)
\* as its count, writes nothing to the catalog and makes no provider call.
C36_DryRunCountsWhatARunFetches ==
    [][\A r \in BulkIds :
          BulkStart(r, TRUE) =>
             /\ bulk'[r].totalPending =
                   Cardinality({ e \in EntryIds : PendingFilter(e) })
             /\ bulk'[r].pc = "done"
             /\ bulk'[r].calls = 0
             /\ entries' = entries]_vars

\* C37: a step of a processJob invocation leaves every job with the same
\* number of rows, totalRows equal to it, and every row with its rowNumber,
\* sapDescription, sapLocation, decision and selectedAssetId, decisions
\* recorded during the run included; only the row write of the run changes
\* suggestions, and only those of the row the run is handling.
C37_ProcessJobChangesOnlySuggestions ==
    [][\A r \in RunIds :
          Stepped(r) =>
             \A j \in DOMAIN jobs :
                /\ j \in DOMAIN jobs'
                /\ Len(jobs'[j].rows) = Len(jobs[j].rows)
                /\ jobs'[j].totalRows = Len(jobs'[j].rows)
                /\ \A k \in DOMAIN jobs[j].rows :
                     /\ [jobs'[j].rows[k] EXCEPT !.suggestions = jobs[j].rows[k].suggestions]
                           = jobs[j].rows[k]
                     /\ jobs'[j].rows[k].suggestions # jobs[j].rows[k].suggestions =>
                           /\ runs[r].pc = "store"
                           /\ runs[r].job = j
                           /\ runs[r].i = k]_vars

\* C37 witness: a run that has just completed stored both rows of its job;
\* row 1 was decided no_match after its row write, which emptied its
\* suggestions, and the decision is there at the end of the run.
C37_Witness ==
    /\ resp = [op |-> "processJob", result |-> "completed"]
    /\ issued = 1
    /\ \E j \in DOMAIN jobs :
         /\ jobs[j].status = "completed"
         /\ Len(jobs[j].rows) = 2
         /\ jobs[j].processedRows = 2
         /\ jobs[j].rows[1].decision = "no_match"
         /\ jobs[j].rows[1].suggestions = <<>>
         /\ jobs[j].rows[2].decision = "pending"
         /\ jobs[j].rows[2].suggestions # <<>>

\* C38: no step clears the isReconciled flag of a catalog entry. The row
\* write of a decision (match, no_match or pending; the step that counts the
\* request in `issued`) and deleteJob (the step that removes a job) leave the
\* whole catalog as it is, and the asset write of a match changes the entry
\* it names and no other: the entry a row selected before keeps its flag and
\* its back-reference.
C38_ReconciledNeverCleared ==
    [][/\ \A a \in Assets : assets[a].isReconciled => assets'[a].isReconciled
       /\ issued' # issued => assets' = assets
       /\ DOMAIN jobs' # DOMAIN jobs => assets' = assets
       /\ (dec.pc = "catalog" /\ dec'.pc = "idle") =>
            \A a \in Assets :
               a # ObjectId(dec.selectedAssetId) => assets'[a] = assets[a]]_vars

\* C38 witness: a row that was a match with an entry has just been decided
\* no_match: the entry is still reconciled with the back-reference of that
\* row, and no row of the job selects it.
C38_Witness ==
    /\ resp = [op |-> "setDecision", result |-> "ok"]
    /\ \E j \in DOMAIN jobs, a \in Assets :
         \E k \in DOMAIN jobs[j].rows :
            /\ jobs[j].rows[k].decision = "no_match"
            /\ assets[a] = [isReconciled |-> TRUE, reconciledJobId |-> j,
                            reconciledRowNumber |-> jobs[j].rows[k].rowNumber]
            /\ \A m \in DOMAIN jobs[j].rows : jobs[j].rows[m].selectedAssetId # a

\* C38 second witness: the job is deleted and an entry still carries its id.
C38_WitnessDeleted ==
    /\ resp = [op |-> "deleteJob", result |-> "ok"]
    /\ jobs = <<>>
    /\ \E a \in Assets : assets[a].isReconciled /\ assets[a].reconciledJobId = 1

\* C39: a job id that was handed out and is no more in the collection is in
\* the collection after no step, whatever write a processJob run or an
\* autoReconcileJob invocation that is in flight makes, and getJob on it
\* answers not-found.
C39_DeletedJobStaysDeleted ==
    [][\A j \in JobIds :
          (j < nextJobId /\ ~JobExists(j)) =>
             /\ j \notin DOMAIN jobs'
             /\ GetJob(j) => resp'.result = "notfound"]_vars

\* C39 witness: the job was deleted after autoReconcileJob had matched a row
\* of it and while a processJob run on it was in flight; the run has made its
\* last write and ended, and the collection holds no job.
C39_Witness ==
    /\ resp = [op |-> "processJob", result |-> "completed"]
    /\ nextJobId = 2
    /\ jobs = <<>>
    /\ \E a \in Assets : assets[a].isReconciled

====
